---------------------------- MODULE Spec2Model ----------------------------
(***************************************************************************)
(* The Alexa Smart Home response validator (validation.js).                *)
(*                                                                         *)
(* validateResponse(request, response) is modelled as a state machine      *)
(* whose steps are the stages of the call: the request checks, the         *)
(* response checks, the dispatch on the request namespace, the header      *)
(* rules and the payload rules of the dispatched branch.  A call ends      *)
(* "returned" or "thrown"; a thrown call carries the exception.  The       *)
(* process may then call validateResponse again: what the module keeps    *)
(* between calls (its implicit globals) is kept.                           *)
(***************************************************************************)
EXTENDS Integers, Sequences, FiniteSets, TLC

VARIABLES
    request,           \* first argument of validateResponse
    response,          \* second argument of validateResponse
    pc,                \* position of the call
    branch,            \* rule set the call dispatched to ("none" before)
    outcome,           \* Pending, Returned, or the exception thrown
    thrownAt,          \* position at which the call threw ("none" if it did not)
    requestNamespace,  \* implicit global assigned at validation.js:187
    payload,           \* implicit global assigned at validation.js:233
    platform,          \* the Node.js runtime the process runs on
    earlier,           \* history: a call made earlier in the process, and how it ended
    context,           \* the Lambda context (undefined where none is passed)
    succeeded,         \* the arguments of the calls of context.succeed, in order
    validated          \* history: the calls of validateResponse the handler made

vars == <<request, response, pc, branch, outcome, thrownAt, requestNamespace, payload,
          platform, earlier, context, succeeded, validated>>

(***************************************************************************)
(* JavaScript values.  A value is a record tagged with its type.  A string *)
(* is the concatenation of the segments of s: free text is segmented into  *)
(* its characters, a message name into its stem and its final word         *)
(* (<<"TurnOn", "Request">>), so that equal strings have equal segments.   *)
(* An object is a function from its own keys to values.                    *)
(***************************************************************************)
Undefined == [t |-> "undefined"]
Null      == [t |-> "null"]
Bool(b)   == [t |-> "boolean", b |-> b]
Num(n)    == [t |-> "number", n |-> n]
Str(s)    == [t |-> "string", s |-> s]
Arr(a)    == [t |-> "array", a |-> a]
Obj(o)    == [t |-> "object", o |-> o]

EmptyObj  == Obj(<<>>)

\* A one-segment string literal.
Lit(w) == Str(<<w>>)

\* A message name: stem and final word.
Name(stem, word) == Str(<<stem, word>>)

\* n copies of the character c.
Repeat(c, n) == Str([i \in 1..n |-> c])

\* The object o with key k set to v / with key k deleted.
With(o, k, v) == Obj([x \in (DOMAIN o.o) \cup {k} |-> IF x = k THEN v ELSE o.o[x]])
Without(o, k) == Obj([x \in (DOMAIN o.o) \ {k} |-> o.o[x]])

\* The number of characters of the segments s: one for each character
\* segment, and the lengths of the others.
RECURSIVE WordsLen(_, _)
WordsLen(s, words) ==
    IF words = {} THEN 0
    ELSE LET i == CHOOSE i \in words : TRUE
         IN  Len(s[i]) + WordsLen(s, words \ {i})
SumLen(s) ==
    LET words == {i \in 1..Len(s) : Len(s[i]) # 1}
    IN  (Len(s) - Cardinality(words)) + WordsLen(s, words)

\* x == null (true of null and undefined).
IsNullish(v) == v.t \in {"undefined", "null"}

\* v.length of a string or an array; no other value of the model has one.
HasLength(v) == v.t \in {"string", "array"}
Length(v) == IF v.t = "string" THEN SumLen(v.s) ELSE Len(v.a)

\* v.k, for v not null or undefined (reading a property of those throws).
Get(v, k) == IF v.t = "object" /\ k \in DOMAIN v.o THEN v.o[k] ELSE Undefined

\* k in v: a TypeError unless v is an object (arrays included).
InThrows(v) == v.t \notin {"object", "array"}
In(k, v) == v.t = "object" /\ k \in DOMAIN v.o

\* typeof v
TypeOf(v) == CASE v.t = "undefined" -> "undefined"
               [] v.t \in {"null", "array", "object"} -> "object"
               [] OTHER -> v.t

\* !v
Falsy(v) == \/ IsNullish(v)
            \/ v.t = "boolean" /\ ~v.b
            \/ v.t = "number" /\ v.n = 0
            \/ v.t = "string" /\ SumLen(v.s) = 0

\* v instanceof Array
InstanceOfArray(v) == v.t = "array"

Min(S) == CHOOSE x \in S : \A y \in S : x <= y

\* array.indexOf(v) > -1 (strict equality; the model has no NaN and
\* compares objects by content, which no rule table holds).
Includes(array, v) == \E i \in 1..Len(array) : array[i] = v

(***************************************************************************)
(* Exceptions and results.                                                 *)
(***************************************************************************)
Pending  == [kind |-> "pending"]
Returned == [kind |-> "returned"]

\* generateErrorMessage: title + ' :: ' + message + ': ' + JSON.stringify(data).
\* The three parts are kept apart; data is the value handed to JSON.stringify.
generateErrorMessage(title, message, data) ==
    [title |-> title, message |-> message, data |-> data]

\* throw new Error(text)
Error(text) == [kind |-> "Error", text |-> text]

\* Exceptions raised by the runtime itself.
TypeError      == [kind |-> "TypeError"]
ReferenceError == [kind |-> "ReferenceError"]

Throw(title, message, data) == Error(generateErrorMessage(title, message, data))

(***************************************************************************)
(* Utility functions.                                                      *)
(***************************************************************************)
isEmpty(obj) ==
    IF IsNullish(obj) THEN TRUE
    ELSE IF HasLength(obj) /\ Length(obj) > 0 THEN FALSE
    ELSE IF HasLength(obj) /\ Length(obj) = 0 THEN TRUE
    ELSE IF TypeOf(obj) # "object" THEN TRUE
    ELSE DOMAIN obj.o = {}

isInArray(array, object) ==
    IF Len(array) = 0 THEN FALSE
    ELSE IF isEmpty(object) THEN FALSE
    ELSE Includes(array, object)

\* string.replace(pattern, replacement): the first occurrence is replaced.
\* pattern is a final word of the segmentation.
Replace(string, pattern, replacement) ==
    LET at == {i \in 1..Len(string.s) : string.s[i] = pattern}
    IN  IF at = {} THEN string
        ELSE Str([i \in 1..Len(string.s) |->
                    IF i = Min(at) THEN replacement ELSE string.s[i]])

\* The text of a string: its segments concatenated.
RECURSIVE Concat(_)
Concat(s) == IF s = <<>> THEN "" ELSE Head(s) \o Concat(Tail(s))
Text(string) == Concat(string.s)

\* string.search(regex) # -1 and string.match(regex) for a regex
\* ^[class]*$: every character of the string is in the class.
MatchesClass(string, class) == \A i \in 1..Len(string.s) : string.s[i] \in class

Lower == {"a","b","c","d","e","f","g","h","i","j","k","l","m",
          "n","o","p","q","r","s","t","u","v","w","x","y","z"}
Upper == {"A","B","C","D","E","F","G","H","I","J","K","L","M",
          "N","O","P","Q","R","S","T","U","V","W","X","Y","Z"}
Digit == {"0","1","2","3","4","5","6","7","8","9"}
AlphaNum == Lower \cup Upper \cup Digit


(***************************************************************************)
(* Rule tables.                                                            *)
(***************************************************************************)
Discovery == Lit("Alexa.ConnectedHome.Discovery")
Control   == Lit("Alexa.ConnectedHome.Control")
System    == Lit("Alexa.ConnectedHome.System")

VALID_DISCOVERY_REQUEST_NAMES == <<Name("DiscoverAppliances", "Request")>>

VALID_CONTROL_REQUEST_NAMES == <<
    Name("TurnOn", "Request"),
    Name("TurnOff", "Request"),
    Name("SetTargetTemperature", "Request"),
    Name("IncrementTargetTemperature", "Request"),
    Name("DecrementTargetTemperature", "Request"),
    Name("SetPercentage", "Request"),
    Name("IncrementPercentage", "Request"),
    Name("DecrementPercentage", "Request") >>

VALID_SYSTEM_REQUEST_NAMES == <<Name("HealthCheck", "Request")>>

VALID_REQUEST_NAMES ==
    VALID_DISCOVERY_REQUEST_NAMES \o VALID_CONTROL_REQUEST_NAMES \o VALID_SYSTEM_REQUEST_NAMES

VALID_DISCOVERY_RESPONSE_NAMES == <<Name("DiscoverAppliances", "Response")>>

VALID_CONTROL_RESPONSE_NAMES == <<
    Name("TurnOn", "Confirmation"),
    Name("TurnOff", "Confirmation"),
    Name("SetTargetTemperature", "Confirmation"),
    Name("IncrementTargetTemperature", "Confirmation"),
    Name("DecrementTargetTemperature", "Confirmation"),
    Name("SetPercentage", "Confirmation"),
    Name("IncrementPercentage", "Confirmation"),
    Name("DecrementPercentage", "Confirmation") >>

VALID_CONTROL_ERROR_RESPONSE_NAMES == <<
    Name("ValueOutOfRange", "Error"),
    Name("TargetOffline", "Error"),
    Name("BridgeOffline", "Error"),
    Name("NoSuchTarget", "Error"),
    Name("DriverInternal", "Error"),
    Name("DependentServiceUnavailable", "Error"),
    Name("TargetConnectivityUnstable", "Error"),
    Name("TargetBridgeConnectivityUnstable", "Error"),
    Name("TargetFirmwareOutdated", "Error"),
    Name("TargetBridgeFirmwareOutdated", "Error"),
    Name("TargetHardwareMalfunction", "Error"),
    Name("TargetBridgetHardwareMalfunction", "Error"),
    Name("UnwillingToSetValue", "Error"),
    Name("RateLimitExceeded", "Error"),
    Name("NotSupportedInCurrentMode", "Error"),
    Name("ExpiredAccessToken", "Error"),
    Name("InvalidAccessToken", "Error"),
    Name("UnsupportedTarget", "Error"),
    Name("UnsupportedOperation", "Error"),
    Name("UnsupportedTargetSetting", "Error"),
    Name("UnexpectedInformationReceived", "Error") >>

VALID_SYSTEM_RESPONSE_NAMES == <<Name("HealthCheck", "Response")>>

\* The table without its last name.
VALID_NON_EMPTY_PAYLOAD_RESPONSE_NAMES_TenNames == <<
    Name("SetTargetTemperature", "Confirmation"),
    Name("IncrementTargetTemperature", "Confirmation"),
    Name("DecrementTargetTemperature", "Confirmation"),
    Name("ValueOutOfRange", "Error"),
    Name("DependentServiceUnavailable", "Error"),
    Name("TargetFirmwareOutdated", "Error"),
    Name("TargetBridgeFirmwareOutdated", "Error"),
    Name("UnwillingToSetValue", "Error"),
    Name("RateLimitExceeded", "Error"),
    Name("NotSupportedInCurrentMode", "Error") >>

VALID_NON_EMPTY_PAYLOAD_RESPONSE_NAMES == <<
    Name("SetTargetTemperature", "Confirmation"),
    Name("IncrementTargetTemperature", "Confirmation"),
    Name("DecrementTargetTemperature", "Confirmation"),
    Name("ValueOutOfRange", "Error"),
    Name("DependentServiceUnavailable", "Error"),
    Name("TargetFirmwareOutdated", "Error"),
    Name("TargetBridgeFirmwareOutdated", "Error"),
    Name("UnwillingToSetValue", "Error"),
    Name("RateLimitExceeded", "Error"),
    Name("NotSupportedInCurrentMode", "Error"),
    Name("UnexpectedInformationReceived", "Error") >>

\* The table without its last word.
VALID_ACTIONS_SevenWords == <<
    Lit("setTargetTemperature"),
    Lit("incrementTargetTemperature"),
    Lit("decrementTargetTemperature"),
    Lit("setPercentage"),
    Lit("incrementPercentage"),
    Lit("decrementPercentage"),
    Lit("turnOff") >>

VALID_ACTIONS == <<
    Lit("setTargetTemperature"),
    Lit("incrementTargetTemperature"),
    Lit("decrementTargetTemperature"),
    Lit("setPercentage"),
    Lit("incrementPercentage"),
    Lit("decrementPercentage"),
    Lit("turnOff"),
    Lit("turnOn") >>

VALID_TEMPERATURE_MODES == <<Lit("HEAT"), Lit("COOL"), Lit("AUTO")>>

\* The device modes with one more word.
VALID_CURRENT_DEVICE_MODES_WithEco ==
    <<Lit("HEAT"), Lit("COOL"), Lit("AUTO"), Lit("AWAY"), Lit("OTHER"), Lit("ECO")>>

VALID_CURRENT_DEVICE_MODES ==
    <<Lit("HEAT"), Lit("COOL"), Lit("AUTO"), Lit("AWAY"), Lit("OTHER")>>

VALID_ERRORINFO_CODES == <<Lit("ThermostatIsOff")>>

VALID_TIME_UNITS == <<Lit("MINUTE"), Lit("HOUR"), Lit("DAY")>>

\* The table with the payload key left out.
REQUIRED_RESPONSE_KEYS_NoPayload == <<"header">>

REQUIRED_RESPONSE_KEYS == <<"header", "payload">>

REQUIRED_HEADER_KEYS == <<"namespace", "name", "payloadVersion", "messageId">>

\* The table without friendlyDescription.
REQUIRED_DISCOVERED_APPLIANCE_KEYS_NoDescription ==
    <<"applianceId", "manufacturerName", "modelName", "version", "friendlyName",
      "isReachable", "actions", "additionalApplianceDetails">>

REQUIRED_DISCOVERED_APPLIANCE_KEYS == <<
    "applianceId", "manufacturerName", "modelName", "version", "friendlyName",
    "friendlyDescription", "isReachable", "actions", "additionalApplianceDetails" >>

MAX_DISCOVERED_APPLIANCES == 300

(***************************************************************************)
(* Results of one stage of a call: Ok, or the exception it throws.         *)
(***************************************************************************)
Ok == [kind |-> "ok"]

\* keys.forEach(function(key){ if (!(key in v)) throw ... }): the indexes
\* of the keys v lacks; the loop throws for the first of them.
MissingKeys(keys, v) == {i \in 1..Len(keys) : ~In(keys[i], v)}

(***************************************************************************)
(* validateResponseHeader                                                  *)
(***************************************************************************)
\* request_name.replace('Request','Confirmation')
CorrectResponseName(request_name) == Replace(request_name, "Request", "Confirmation")

\* The rule with the response to a system request held to the system
\* namespace and the system response names.
HeaderNameRule_SystemChecked(request_name, header) ==
    IF isInArray(VALID_DISCOVERY_REQUEST_NAMES, request_name)
    THEN IF Get(header, "namespace") # Discovery
         THEN Throw(Lit("Discovery Response"),
                    "header.namespace must be Alexa.ConnectedHome.Discovery", header)
         ELSE IF ~isInArray(VALID_DISCOVERY_RESPONSE_NAMES, Get(header, "name"))
         THEN Throw(Lit("Discovery Response"), "header.name is invalid", header)
         ELSE Ok
    ELSE IF isInArray(VALID_CONTROL_REQUEST_NAMES, request_name)
    THEN IF Get(header, "namespace") # Control
         THEN Throw(Lit("Control Response"),
                    "header.namespace must be Alexa.ConnectedHome.Control", header)
         ELSE IF ~isInArray(VALID_CONTROL_RESPONSE_NAMES \o VALID_CONTROL_ERROR_RESPONSE_NAMES,
                            Get(header, "name"))
         THEN Throw(Lit("Control Response"), "header.name is invalid", header)
         ELSE IF /\ ~isInArray(VALID_CONTROL_ERROR_RESPONSE_NAMES, Get(header, "name"))
                 /\ CorrectResponseName(request_name) # Get(header, "name")
         THEN Throw(Lit("Control Response"),
                    "header.name must be an error response name or "
                        \o Text(CorrectResponseName(request_name)) \o " for "
                        \o Text(request_name), header)
         ELSE Ok
    ELSE IF Get(header, "namespace") # System
    THEN Throw(Lit("System Response"),
               "header.namespace must be Alexa.ConnectedHome.System", header)
    ELSE IF ~isInArray(VALID_SYSTEM_RESPONSE_NAMES, Get(header, "name"))
    THEN Throw(Lit("System Response"), "header.name is invalid", header)
    ELSE Ok

\* Header namespace and name (validation.js:536-558).
HeaderNameRule(request_name, header) ==
    IF isInArray(VALID_DISCOVERY_REQUEST_NAMES, request_name)
    THEN IF Get(header, "namespace") # Discovery
         THEN Throw(Lit("Discovery Response"),
                    "header.namespace must be Alexa.ConnectedHome.Discovery", header)
         ELSE IF ~isInArray(VALID_DISCOVERY_RESPONSE_NAMES, Get(header, "name"))
         THEN Throw(Lit("Discovery Response"), "header.name is invalid", header)
         ELSE Ok
    ELSE IF isInArray(VALID_CONTROL_REQUEST_NAMES, request_name)
    THEN IF Get(header, "namespace") # Control
         THEN Throw(Lit("Control Response"),
                    "header.namespace must be Alexa.ConnectedHome.Control", header)
         ELSE IF ~isInArray(VALID_CONTROL_RESPONSE_NAMES \o VALID_CONTROL_ERROR_RESPONSE_NAMES,
                            Get(header, "name"))
         THEN Throw(Lit("Control Response"), "header.name is invalid", header)
         ELSE IF /\ ~isInArray(VALID_CONTROL_ERROR_RESPONSE_NAMES, Get(header, "name"))
                 /\ CorrectResponseName(request_name) # Get(header, "name")
         THEN Throw(Lit("Control Response"),
                    "header.name must be an error response name or "
                        \o Text(CorrectResponseName(request_name)) \o " for "
                        \o Text(request_name), header)
         ELSE Ok
    ELSE Ok

\* header.messageId.length > 127
MessageIdTooLong(messageId) == Length(messageId) > 127

\* Common header constraints (validation.js:560-572).
HeaderFormatRule(header) ==
    LET messageId == Get(header, "messageId")
    IN  IF Get(header, "payloadVersion") # Lit("2")
        THEN Throw(Get(header, "name"), "header.payloadVersion must be \"2\"", header)
        ELSE IF messageId.t # "string"
        THEN TypeError      \* messageId.search is not a function
        ELSE IF ~MatchesClass(messageId, AlphaNum \cup {"-"})
        THEN Throw(Get(header, "name"),
                   "header.messageId must be specified in alphanumeric characters or - ", header)
        ELSE IF isEmpty(messageId)
        THEN Throw(Get(header, "name"), "header.messageId must not be empty", header)
        ELSE IF MessageIdTooLong(messageId)
        THEN Throw(Get(header, "name"), "header.messageId must not exceed 128 characters", header)
        ELSE Ok

validateResponseHeader(req, resp) ==
    LET request_name == Get(Get(req, "header"), "name")
        header == Get(resp, "header")
    IN  IF ~isInArray(VALID_REQUEST_NAMES, request_name)
        THEN Throw(Lit("Request"), "request name is invalid", req)
        ELSE IF isEmpty(header)
        THEN Throw(Lit("Response"), "header is missing", resp)
        ELSE IF InThrows(header)
        THEN TypeError      \* 'namespace' in <a string>
        ELSE IF MissingKeys(REQUIRED_HEADER_KEYS, header) # {}
        THEN Throw(Lit("Response"),
                   "header." \o REQUIRED_HEADER_KEYS[Min(MissingKeys(REQUIRED_HEADER_KEYS, header))]
                       \o " is required", header)
        ELSE IF HeaderNameRule(request_name, header) # Ok
        THEN HeaderNameRule(request_name, header)
        ELSE HeaderFormatRule(header)


(***************************************************************************)
(* validateDiscoveryResponse, after its call of validateResponseHeader     *)
(***************************************************************************)
\* The first exception of a sequence of checks made in order.
FirstFailure(results) ==
    LET bad == {i \in 1..Len(results) : results[i] # Ok}
    IN  IF bad = {} THEN Ok ELSE results[Min(bad)]

\* A comparison that refuses a value at the limit.
LongerThan_AtLimit(value, limit) == HasLength(value) /\ Length(value) >= limit

\* value.length > limit (undefined > limit is false)
LongerThan(value, limit) == HasLength(value) /\ Length(value) > limit

\* String(value).length, for the values of the model.
RECURSIVE StringLength(_)
StringLength(value) ==
    CASE value.t = "string"    -> SumLen(value.s)
      [] value.t = "undefined" -> 9
      [] value.t = "null"      -> 4
      [] value.t = "boolean"   -> IF value.b THEN 4 ELSE 5
      [] value.t = "number"    -> Len(ToString(value.n))
      [] value.t = "object"    -> 15      \* [object Object]
      [] value.t = "array"     ->
            LET JoinLength[i \in 0..Len(value.a)] ==
                    IF i = 0 THEN 0
                    ELSE JoinLength[i - 1] + (IF i > 1 THEN 1 ELSE 0)
                         + (IF IsNullish(value.a[i]) THEN 0 ELSE StringLength(value.a[i]))
            IN  JoinLength[Len(value.a)]

\* The runtimes differ on Buffer.byteLength of a value that is no string:
\* Node before 7.0 measures String(value), Node from 7.0 throws a TypeError.
Runtimes == {"legacy", "modern"}

\* Buffer.byteLength(value, 'utf8') throws
ByteLengthThrows(value, runtime) == value.t # "string" /\ runtime = "modern"

\* Buffer.byteLength(value, 'utf8'); the characters of the model are ASCII.
ByteLength(value) == StringLength(value)

\* A test of truthiness in place of the test of type.
IsBoolean_Truthy(value) == ~Falsy(value)

\* appliance.isReachable instanceof Boolean || typeof appliance.isReachable === 'boolean'
IsBoolean(value) == TypeOf(value) = "boolean"

\* Required keys of one appliance (validation.js:285-289).
ApplianceKeysRule(appliance, response_name) ==
    IF InThrows(appliance) THEN TypeError
    ELSE IF MissingKeys(REQUIRED_DISCOVERED_APPLIANCE_KEYS, appliance) # {}
    THEN Throw(response_name,
               REQUIRED_DISCOVERED_APPLIANCE_KEYS[
                   Min(MissingKeys(REQUIRED_DISCOVERED_APPLIANCE_KEYS, appliance))]
                   \o " is missing", appliance)
    ELSE Ok

\* validation.js:290-298
ApplianceIdRule(appliance, response_name) ==
    LET applianceId == Get(appliance, "applianceId")
    IN  IF isEmpty(applianceId)
        THEN Throw(response_name, "applianceId must not be empty", appliance)
        ELSE IF LongerThan(applianceId, 256)
        THEN Throw(response_name, "applianceId cannot be exceed 256 characters", appliance)
        ELSE IF applianceId.t # "string"
        THEN TypeError      \* applianceId.match is not a function
        ELSE IF ~MatchesClass(applianceId, AlphaNum \cup {"_", "-", "=", ";", ":", "?", "@", "&"})
        THEN Throw(response_name,
                   "applianceId must be alphanumeric or the following special characters: _-=;:?@&",
                   appliance)
        ELSE Ok

\* A field that must be non-empty and at most 128 characters long
\* (validation.js:299-316, 326-331).
TextRule(appliance, response_name, key, emptyMessage) ==
    IF isEmpty(Get(appliance, key))
    THEN Throw(response_name, key \o emptyMessage, appliance)
    ELSE IF LongerThan(Get(appliance, key), 128)
    THEN Throw(response_name, key \o " cannot exceed 128 characters", appliance)
    ELSE Ok

\* validation.js:317-325
FriendlyNameRule(appliance, response_name) ==
    LET friendlyName == Get(appliance, "friendlyName")
    IN  IF TextRule(appliance, response_name, "friendlyName", " cannot be empty") # Ok
        THEN TextRule(appliance, response_name, "friendlyName", " cannot be empty")
        ELSE IF friendlyName.t # "string"
        THEN TypeError      \* friendlyName.match is not a function
        ELSE IF ~MatchesClass(friendlyName, AlphaNum \cup {" "})
        THEN Throw(response_name,
                   "friendlyName cannot contain punctuation or special characters", appliance)
        ELSE Ok

\* validation.js:332-334
IsReachableRule(appliance, response_name) ==
    IF ~IsBoolean(Get(appliance, "isReachable"))
    THEN Throw(response_name, "isReachable must be a boolean", appliance)
    ELSE Ok

\* JSON.stringify(action) of a scalar action; the text of an array or an
\* object is not expanded.
Quoted(action) ==
    CASE action.t = "string"  -> "\"" \o Text(action) \o "\""
      [] action.t = "number"  -> ToString(action.n)
      [] action.t = "boolean" -> IF action.b THEN "true" ELSE "false"
      [] action.t = "null"    -> "null"
      [] OTHER                -> "..."

\* validation.js:335-345
ActionsRule(appliance, response_name) ==
    LET actions == Get(appliance, "actions")
    IN  IF ~InstanceOfArray(actions)
        THEN Throw(response_name, "actions must be a list", appliance)
        ELSE IF isEmpty(actions)
        THEN Throw(response_name, "actions cannot be empty", appliance)
        ELSE LET bad == {i \in 1..Len(actions.a) : ~isInArray(VALID_ACTIONS, actions.a[i])}
             IN  IF bad # {}
                 THEN Throw(response_name,
                            Quoted(actions.a[Min(bad)]) \o " is not an allowed action", appliance)
                 ELSE Ok

\* validation.js:346-350.  The throw names discoveredAppliance, which is
\* declared nowhere: evaluating it raises a ReferenceError.
AdditionalApplianceDetailsRule(appliance, response_name, runtime) ==
    LET details == Get(appliance, "additionalApplianceDetails")
    IN  IF IsNullish(details) THEN Ok
        ELSE IF ByteLengthThrows(details, runtime) THEN TypeError
        ELSE IF ByteLength(details) > 5000 THEN ReferenceError
        ELSE Ok

\* The body of the loop over the discovered appliances (validation.js:283-351).
validateAppliance(appliance, response_name, runtime) ==
    IF ApplianceKeysRule(appliance, response_name) # Ok
    THEN ApplianceKeysRule(appliance, response_name)
    ELSE FirstFailure(<<
            ApplianceIdRule(appliance, response_name),
            TextRule(appliance, response_name, "manufacturerName", " must not be empty"),
            TextRule(appliance, response_name, "modelName", " cannot be empty"),
            TextRule(appliance, response_name, "version", " cannot be empty"),
            FriendlyNameRule(appliance, response_name),
            TextRule(appliance, response_name, "friendlyDescription", " cannot be empty"),
            IsReachableRule(appliance, response_name),
            ActionsRule(appliance, response_name),
            AdditionalApplianceDetailsRule(appliance, response_name, runtime) >>)

\* payload.discoveredAppliances.length > MAX_DISCOVERED_APPLIANCES
TooManyAppliances(discoveredAppliances) ==
    Len(discoveredAppliances.a) > MAX_DISCOVERED_APPLIANCES

\* validation.js:264-351
validateDiscoveryPayload(resp, runtime) ==
    LET payload_ == Get(resp, "payload")
        response_name == Get(Get(resp, "header"), "name")
        discoveredAppliances == Get(payload_, "discoveredAppliances")
    IN  IF isEmpty(payload_)
        THEN Throw(response_name, "payload is missing", payload_)
        ELSE IF InThrows(payload_)
        THEN TypeError      \* 'discoveredAppliances' in <a string>
        ELSE IF ~In("discoveredAppliances", payload_)
        THEN Throw(response_name, "payload.discoveredAppliances is missing", payload_)
        ELSE IF ~InstanceOfArray(discoveredAppliances)
        THEN Throw(response_name,
                   "payload.discoveredAppliances must be a list, can be empty", payload_)
        ELSE IF TooManyAppliances(discoveredAppliances)
        THEN Throw(response_name,
                   "payload.discoveredAppliances must not contain more than 300 appliances",
                   payload_)
        ELSE FirstFailure([i \in 1..Len(discoveredAppliances.a) |->
                validateAppliance(discoveredAppliances.a[i], response_name, runtime)])

(***************************************************************************)
(* validateSystemResponse, after its call of validateResponseHeader        *)
(***************************************************************************)
\* One pass of the loop over ['description','isHealthy'] (validation.js:243-251).
\* !required_key in payload is (!required_key) in payload, the key 'false':
\* no value of the model has it, and a payload that is no object makes the
\* operator throw.  boolean is declared nowhere: evaluating
\* (!payload.isHealthy) instanceof boolean raises a ReferenceError.
\* The pass with the description checked only where the payload has one.
SystemKeyRule_DescriptionIfPresent(payload_, response_name) ==
    IF InThrows(payload_) THEN TypeError
    ELSE IF In("description", payload_) /\ isEmpty(Get(payload_, "description"))
    THEN Throw(response_name, "payload.description must not be empty", payload_)
    ELSE ReferenceError

SystemKeyRule(payload_, response_name) ==
    IF InThrows(payload_) THEN TypeError
    ELSE IF isEmpty(Get(payload_, "description"))
    THEN Throw(response_name, "payload.description must not be empty", payload_)
    ELSE ReferenceError

\* validation.js:229-252
validateSystemPayload(resp) ==
    LET payload_ == Get(resp, "payload")
        response_name == Get(Get(resp, "header"), "name")
    IN  IF Falsy(payload_)
        THEN Throw(response_name, "payload is missing", payload_)
        ELSE SystemKeyRule(payload_, response_name)


(***************************************************************************)
(* validateControlResponse, after its call of validateResponseHeader       *)
(***************************************************************************)
\* A loop keys.forEach(function(key){ if (!(key in v)) throw 'missing';
\* <check of v[key]> }): Check(key) is the result of the check of one key.
KeyMissing(response_name, path, key, payload_) ==
    Throw(response_name, path \o key \o " is missing", payload_)

\* validation.js:369-383
EmptinessRule(payload_, response_name) ==
    IF IsNullish(payload_)
    THEN Throw(response_name, "payload is missing", payload_)
    ELSE IF isInArray(VALID_NON_EMPTY_PAYLOAD_RESPONSE_NAMES, response_name)
    THEN IF isEmpty(payload_)
         THEN Throw(response_name, "payload cannot be empty", payload_)
         ELSE Ok
    ELSE IF ~isEmpty(payload_)
         THEN Throw(response_name, "payload must be empty", payload_)
         ELSE Ok

\* The list with the first of the three names only.
IsTemperatureRequest_SetOnly(request_name) ==
    isInArray(<<Name("SetTargetTemperature", "Request")>>, request_name)

IsTemperatureRequest(request_name) ==
    isInArray(<<Name("SetTargetTemperature", "Request"),
                Name("IncrementTargetTemperature", "Request"),
                Name("DecrementTargetTemperature", "Request")>>, request_name)

\* validation.js:386-424.  The first pass of the loop over the three keys
\* ends the call: TEMPERATURE_MODES is declared nowhere, and evaluating
\* isInArray(TEMPERATURE_MODES, ...) raises a ReferenceError.
TemperatureRule(payload_, request_name, response_name) ==
    LET targetTemperature == Get(payload_, "targetTemperature")
        temperatureMode == Get(payload_, "temperatureMode")
    IN  IF ~IsTemperatureRequest(request_name) THEN Ok
        ELSE IF InThrows(payload_) THEN TypeError
        ELSE IF ~In("targetTemperature", payload_)
        THEN KeyMissing(response_name, "payload.", "targetTemperature", payload_)
        ELSE IF InThrows(targetTemperature) THEN TypeError
        ELSE IF ~In("value", targetTemperature)
        THEN KeyMissing(response_name, "payload.targetTemperature.", "value", payload_)
        ELSE IF TypeOf(Get(targetTemperature, "value")) # "number"
        THEN Throw(response_name, "payload.targetTemperature.value must be a number", payload_)
        ELSE IF InThrows(temperatureMode) THEN TypeError
        ELSE IF ~In("value", temperatureMode)
        THEN KeyMissing(response_name, "payload.temperatureMode.", "value", payload_)
        ELSE ReferenceError

\* validation.js:427-436
ValueOutOfRangeRule(payload_, response_name) ==
    LET Check(key) ==
            IF InThrows(payload_) THEN TypeError
            ELSE IF ~In(key, payload_)
            THEN KeyMissing(response_name, "payload.", key, payload_)
            ELSE IF TypeOf(Get(payload_, key)) # "number"
            THEN Throw(response_name, "payload." \o key \o " must be a number", payload_)
            ELSE Ok
    IN  IF response_name # Name("ValueOutOfRange", "Error") THEN Ok
        ELSE FirstFailure(<<Check("minimumValue"), Check("maximumValue")>>)

\* validation.js:438-445
DependentServiceRule(payload_, response_name) ==
    LET dependentServiceName == Get(payload_, "dependentServiceName")
    IN  IF response_name # Name("DependentServiceUnavailable", "Error") THEN Ok
        ELSE IF InThrows(payload_) THEN TypeError
        ELSE IF ~In("dependentServiceName", payload_)
        THEN KeyMissing(response_name, "payload.", "dependentServiceName", payload_)
        ELSE IF dependentServiceName.t # "string" THEN TypeError
        ELSE IF ~MatchesClass(dependentServiceName, AlphaNum \cup {" "})
        THEN Throw(response_name,
                   "payload.dependentServiceName must be specifed in alphanumeric characters and spaces",
                   payload_)
        ELSE Ok

\* response_name in ['TargetFirmwareOutdatedError','TargetBridgeFirmwareOutdatedError']:
\* whether response_name is a property key of the array, "0", "1" or "length".
InFirmwareErrorNames(response_name) ==
    \/ response_name.t = "string" /\ Text(response_name) \in {"0", "1", "length"}
    \/ response_name.t = "number" /\ response_name.n \in {0, 1}

\* validation.js:447-460
FirmwareRule(payload_, response_name) ==
    LET Check(key) ==
            IF InThrows(payload_) THEN TypeError
            ELSE IF ~In(key, payload_)
            THEN KeyMissing(response_name, "payload.", key, payload_)
            ELSE IF isEmpty(Get(payload_, key))
            THEN Throw(response_name, "payload." \o key \o " must not be empty", payload_)
            ELSE IF Get(payload_, key).t # "string" THEN TypeError
            ELSE IF ~MatchesClass(Get(payload_, key), AlphaNum)
            THEN Throw(response_name,
                       "payload." \o key \o " must be specifed in alphanumeric characters and spaces",
                       payload_)
            ELSE Ok
    IN  IF ~InFirmwareErrorNames(response_name) THEN Ok
        ELSE FirstFailure(<<Check("minimumFirmwareVersion"), Check("currentFirmwareVersion")>>)

\* validation.js:462-474
UnwillingToSetValueRule(payload_, response_name) ==
    LET errorInfo == Get(payload_, "errorInfo")
        Check(key) ==
            IF InThrows(errorInfo) THEN TypeError
            ELSE IF ~In(key, errorInfo)
            THEN KeyMissing(response_name, "payload.errorInfo.", key, payload_)
            ELSE Ok
    IN  IF response_name # Name("UnwillingToSetValue", "Error") THEN Ok
        ELSE IF InThrows(payload_) THEN TypeError
        ELSE IF ~In("errorInfo", payload_)
        THEN KeyMissing(response_name, "payload.", "errorInfo", payload_)
        ELSE IF FirstFailure(<<Check("code"), Check("description")>>) # Ok
        THEN FirstFailure(<<Check("code"), Check("description")>>)
        ELSE IF ~isInArray(VALID_ERRORINFO_CODES, Get(errorInfo, "code"))
        THEN Throw(response_name, "payload.errorInfo.code is invalid", payload_)
        ELSE Ok

\* value <= 0, value converted to a number: undefined, an object and a
\* string that spells no number give NaN, which compares false.
Numeral(string) ==
    /\ Len(string.s) > 0
    /\ \A i \in 1..Len(string.s) : string.s[i] \in Digit \/ (i = 1 /\ string.s[i] = "-")
    /\ string.s # <<"-">>
NotPositive(value) ==
    CASE value.t = "number"  -> value.n <= 0
      [] value.t = "null"    -> TRUE
      [] value.t = "boolean" -> ~value.b
      [] value.t = "string"  ->
            \/ Len(value.s) = 0
            \/ Numeral(value) /\ (value.s[1] = "-" \/ \A i \in 1..Len(value.s) : value.s[i] = "0")
      [] value.t = "array"   -> Len(value.a) = 0
      [] OTHER               -> FALSE

\* validation.js:476-488.  The time unit looked up in VALID_TIME_UNITS is
\* payload.rateLimit.
RateLimitRule(payload_, response_name) ==
    LET Check(key) ==
            IF InThrows(payload_) THEN TypeError
            ELSE IF ~In(key, payload_)
            THEN KeyMissing(response_name, "payload.", key, payload_)
            ELSE IF NotPositive(Get(payload_, "rateLimit"))
            THEN Throw(response_name, "payload.rateLimit must be a positive integer", payload_)
            ELSE IF ~isInArray(VALID_TIME_UNITS, Get(payload_, "rateLimit"))
            THEN Throw(response_name, "payload.timeUnit is invalid", payload_)
            ELSE Ok
    IN  IF response_name # Name("RateLimitExceeded", "Error") THEN Ok
        ELSE FirstFailure(<<Check("rateLimit"), Check("timeUnit")>>)

\* validation.js:490-497
CurrentModeRule(payload_, response_name) ==
    IF response_name # Name("NotSupportedInCurrentMode", "Error") THEN Ok
    ELSE IF InThrows(payload_) THEN TypeError
    ELSE IF ~In("currentDeviceMode", payload_)
    THEN KeyMissing(response_name, "payload.", "currentDeviceMode", payload_)
    ELSE IF ~isInArray(VALID_CURRENT_DEVICE_MODES, Get(payload_, "currentDeviceMode"))
    THEN Throw(response_name, "payload.currentDeviceMode is invalid", payload_)
    ELSE Ok

\* validation.js:499-506
UnexpectedInformationRule(payload_, response_name) ==
    IF response_name # Name("UnexpectedInformationReceived", "Error") THEN Ok
    ELSE IF InThrows(payload_) THEN TypeError
    ELSE IF ~In("faultingParameter", payload_)
    THEN KeyMissing(response_name, "payload.", "faultingParameter", payload_)
    ELSE IF isEmpty(Get(payload_, "faultingParameter"))
    THEN Throw(response_name, "payload.faultingParameter must not be empty", payload_)
    ELSE Ok

\* validation.js:364-506
validateControlPayload(req, resp) ==
    LET payload_ == Get(resp, "payload")
        request_name == Get(Get(req, "header"), "name")
        response_name == Get(Get(resp, "header"), "name")
    IN  FirstFailure(<<
            EmptinessRule(payload_, response_name),
            TemperatureRule(payload_, request_name, response_name),
            ValueOutOfRangeRule(payload_, response_name),
            DependentServiceRule(payload_, response_name),
            FirmwareRule(payload_, response_name),
            UnwillingToSetValueRule(payload_, response_name),
            RateLimitRule(payload_, response_name),
            CurrentModeRule(payload_, response_name),
            UnexpectedInformationRule(payload_, response_name) >>)


(***************************************************************************)
(* validateContext                                                         *)
(***************************************************************************)
\* The limit of validation.js:166, in milliseconds.
TimeoutLimit == 7000

\* A Lambda context whose getRemainingTimeInMillis() answers millis.
Context(millis) == Obj([getRemainingTimeInMillis |-> Num(millis)])

\* context.getRemainingTimeInMillis()
getRemainingTimeInMillis(context_) == Get(context_, "getRemainingTimeInMillis")

\* The check with the limit itself refused.
validateContext_AtLimit(context_) ==
    IF getRemainingTimeInMillis(context_).n >= TimeoutLimit
    THEN Throw(Lit("Lambda"), "timeout must be 7 seconds or less", context_)
    ELSE Ok

\* validation.js:157-169
validateContext(context_) ==
    IF getRemainingTimeInMillis(context_).n > TimeoutLimit
    THEN Throw(Lit("Lambda"), "timeout must be 7 seconds or less", context_)
    ELSE Ok

(***************************************************************************)
(* validateResponse                                                        *)
(***************************************************************************)
\* validation.js:179-191.  The try block reads request.header.namespace;
\* the read throws, and the catch reports, only when request.header is
\* null or undefined.
RequestRule(req) ==
    IF isEmpty(req)
    THEN Throw(Lit("Request"), "request is missing", req)
    ELSE IF IsNullish(Get(req, "header"))
    THEN Throw(Lit("Request"), "request is invalid", req)
    ELSE Ok

\* validation.js:193-204
ResponseRule(resp) ==
    IF isEmpty(resp)
    THEN Throw(Lit("Response"), "response is missing", resp)
    ELSE IF InThrows(resp)
    THEN TypeError      \* 'header' in <a string>
    ELSE IF MissingKeys(REQUIRED_RESPONSE_KEYS, resp) # {}
    THEN Throw(Lit("Response"),
               REQUIRED_RESPONSE_KEYS[Min(MissingKeys(REQUIRED_RESPONSE_KEYS, resp))]
                   \o " is missing", resp)
    ELSE Ok

\* A dispatch whose last else branch runs the system rules instead of
\* throwing.
BranchOf_SystemByDefault(namespace) ==
    IF namespace = Discovery THEN "discovery"
    ELSE IF namespace = Control THEN "control"
    ELSE "system"

\* validation.js:206-217: the rule set of a request namespace.
BranchOf(namespace) ==
    IF namespace = Discovery THEN "discovery"
    ELSE IF namespace = Control THEN "control"
    ELSE IF namespace = System THEN "system"
    ELSE "none"


(***************************************************************************)
(* The calls checked: pairs <<request, response>>.                         *)
(***************************************************************************)
\* Length of the appliance lists in which every position is tried.
MaxListLen == 2

Range(seq) == {seq[i] : i \in 1..Len(seq)}

Header(namespace, name, payloadVersion, messageId) ==
    Obj([namespace |-> namespace, name |-> name,
         payloadVersion |-> payloadVersion, messageId |-> messageId])

Envelope(header, payload_) == Obj([header |-> header, payload |-> payload_])

MessageId == Str(<<"a", "b", "c", "-", "1">>)

ValidHeader(namespace, name) == Header(namespace, name, Lit("2"), MessageId)

MakeRequest(namespace, name) == Envelope(ValidHeader(namespace, name), EmptyObj)

DiscoverAppliancesRequest  == Name("DiscoverAppliances", "Request")
DiscoverAppliancesResponse == Name("DiscoverAppliances", "Response")
TurnOnRequest              == Name("TurnOn", "Request")
TurnOnConfirmation         == Name("TurnOn", "Confirmation")
HealthCheckRequest         == Name("HealthCheck", "Request")
HealthCheckResponse        == Name("HealthCheck", "Response")

\* The namespace a request of this name is sent in.
NamespaceOf(request_name) ==
    IF request_name \in Range(VALID_DISCOVERY_REQUEST_NAMES) THEN Discovery
    ELSE IF request_name \in Range(VALID_CONTROL_REQUEST_NAMES) THEN Control
    ELSE System

Namespaces == {Discovery, Control, System, Lit("Alexa.ConnectedHome.Query")}

RequestNames == Range(VALID_REQUEST_NAMES) \cup {Name("Bogus", "Request")}

\* Requests that are absent, empty, or lack part of their header.
MalformedRequests == {
    Undefined, Null, EmptyObj, Num(7), Str(<<"a", "b", "c">>), Arr(<<Null>>),
    Obj([payload |-> EmptyObj]),
    Envelope(Null, EmptyObj),
    Envelope(EmptyObj, EmptyObj),
    Envelope(Str(<<"h">>), EmptyObj),
    Envelope(Without(ValidHeader(Discovery, DiscoverAppliancesRequest), "namespace"), EmptyObj),
    Envelope(Without(ValidHeader(Control, TurnOnRequest), "namespace"), EmptyObj),
    Envelope(Without(ValidHeader(Discovery, DiscoverAppliancesRequest), "name"), EmptyObj) }

Requests ==
    MalformedRequests \cup {MakeRequest(ns, name) : ns \in Namespaces, name \in RequestNames}

NativeRequests == {MakeRequest(NamespaceOf(name), name) : name \in Range(VALID_REQUEST_NAMES)}

\* Response names: the tables of the validator, the interface's spelling of
\* the bridge hardware error, and names no table holds.
ResponseNames ==
    Range(VALID_DISCOVERY_RESPONSE_NAMES) \cup Range(VALID_CONTROL_RESPONSE_NAMES)
    \cup Range(VALID_CONTROL_ERROR_RESPONSE_NAMES) \cup Range(VALID_SYSTEM_RESPONSE_NAMES)
    \cup {Name("TargetBridgeHardwareMalfunction", "Error"),
          Name("Bogus", "Confirmation"), TurnOnRequest, Lit("0"), Str(<<>>), Num(0), Undefined}

PayloadVersions == {Lit("2"), Lit("1"), Num(2), Undefined}

MessageIds == {
    MessageId,
    Str(<<>>),
    Str(<<"i", "d", " ", "w", "i", "t", "h", " ", "s", "p", "a", "c", "e", "s">>),
    Str(<<"a", "_", "1">>),
    Repeat("a", 127), Repeat("a", 128), Repeat("a", 129),
    Num(5), Undefined }

\* ---- discovery payloads ----
GoodAppliance == Obj([
    applianceId                |-> Str(<<"d", "e", "v", "-", "1">>),
    manufacturerName           |-> Str(<<"A", "c", "m", "e">>),
    modelName                  |-> Str(<<"X", "1">>),
    version                    |-> Str(<<"1">>),
    friendlyName               |-> Str(<<"L", "a", "m", "p", " ", "1">>),
    friendlyDescription        |-> Str(<<"a", " ", "l", "a", "m", "p">>),
    isReachable                |-> Bool(TRUE),
    actions                    |-> Arr(<<Lit("turnOn"), Lit("turnOff")>>),
    additionalApplianceDetails |-> Null ])

\* A valid appliance whose additionalApplianceDetails is a mapping.
DetailedAppliance ==
    With(GoodAppliance, "additionalApplianceDetails", Obj([room |-> Str(<<"h", "a", "l", "l">>)]))

ApplianceVariants ==
    {GoodAppliance, DetailedAppliance}
    \cup {Without(GoodAppliance, k) : k \in Range(REQUIRED_DISCOVERED_APPLIANCE_KEYS)}
    \cup {Without(With(GoodAppliance, "applianceId", Str(<<>>)), k) :
            k \in {"friendlyDescription", "additionalApplianceDetails"}}
    \cup {Without(With(GoodAppliance, "isReachable", Lit("true")), k) :
            k \in {"applianceId", "actions"}}
    \cup {Without(Without(GoodAppliance, "version"), "actions")}
    \cup {With(GoodAppliance, "isReachable", v) :
            v \in {Bool(FALSE), Lit("true"), Str(<<"t", "r", "u", "e">>), Num(1), Null, Undefined}}
    \cup {With(GoodAppliance, "additionalApplianceDetails", v) :
            v \in {EmptyObj, Str(<<"x">>), Undefined}}
    \cup {With(GoodAppliance, "applianceId", v) :
            v \in {Str(<<>>), Str(<<"d", "#">>), Num(1)}}
    \cup {With(GoodAppliance, "friendlyName", Str(<<"L", "!">>)),
          With(GoodAppliance, "actions", Arr(<<>>)),
          With(GoodAppliance, "actions", Arr(<<Lit("turnOn"), Lit("explode")>>)),
          With(With(GoodAppliance, "isReachable", Lit("true")), "actions", Arr(<<>>)),
          With(With(GoodAppliance, "isReachable", Lit("true")), "friendlyName", Str(<<>>))}
    \cup {Null, Str(<<"l", "a", "m", "p">>), Num(3), Arr(<<>>)}

\* The fields of an appliance that hold text.
TextFields == {"applianceId", "manufacturerName", "modelName", "version",
               "friendlyName", "friendlyDescription"}

\* Appliances with one text field empty, at a length limit, or beyond it.
LimitVariants ==
    {With(GoodAppliance, k, v) :
        k \in TextFields,
        v \in {Str(<<>>), Repeat("a", 128), Repeat("a", 129), Repeat("a", 256), Repeat("a", 257)}}
    \cup {With(GoodAppliance, k, Str(<<"a", c, "1">>)) :
            k \in {"applianceId", "friendlyName"}, c \in {"_", "&", " ", "!", "Z"}}

\* Appliances whose actions are all the valid words, one valid word, no
\* sequence, an empty sequence, or a sequence with an unknown element.
ActionVariants ==
    {With(GoodAppliance, "actions", v) :
        v \in {Arr(VALID_ACTIONS), Lit("turnOn"), Obj([turnOn |-> Bool(TRUE)]), Null, Undefined,
               Num(1), Arr(<<>>), Arr(<<Lit("explode")>>),
               Arr(<<Lit("explode"), Lit("turnOn")>>),
               Arr(<<Lit("turnOn"), Lit("turnOff"), Lit("TurnOn")>>),
               Arr(<<Lit("turnOn"), Num(1)>>), Arr(<<Null>>)}
           \cup {Arr(<<VALID_ACTIONS[i]>>) : i \in 1..Len(VALID_ACTIONS)}}

\* Appliances whose additionalApplianceDetails is a mapping or a string,
\* small or large.
DetailVariants ==
    {With(GoodAppliance, "additionalApplianceDetails", v) :
        v \in {Obj([blob |-> Repeat("x", 4000)]), Obj([blob |-> Repeat("x", 5001)]),
               Repeat("x", 5000), Repeat("x", 5001)}}

\* Appliances tried in pairs.
PairedVariants == {
    GoodAppliance,
    Without(GoodAppliance, "friendlyDescription"),
    With(GoodAppliance, "isReachable", Lit("true")),
    With(GoodAppliance, "isReachable", Bool(FALSE)),
    With(GoodAppliance, "applianceId", Str(<<>>)) }

ListOf(n, appliance) == Arr([i \in 1..n |-> appliance])

\* n good appliances, the i-th replaced.
ListWith(n, i, appliance) == Arr([j \in 1..n |-> IF j = i THEN appliance ELSE GoodAppliance])

ListLengths == (0..MaxListLen) \cup {MAX_DISCOVERED_APPLIANCES, MAX_DISCOVERED_APPLIANCES + 1}

ApplianceLists ==
    {ListOf(n, a) : n \in ListLengths, a \in {GoodAppliance, DetailedAppliance}}
    \cup {ListWith(n, i, a) : n \in 1..MaxListLen, i \in 1..MaxListLen,
                               a \in ApplianceVariants \cup LimitVariants \cup ActionVariants
                                    \cup DetailVariants}
    \cup {Arr(<<a, b>>) : a \in PairedVariants, b \in PairedVariants}
    \cup {ListWith(MAX_DISCOVERED_APPLIANCES, MAX_DISCOVERED_APPLIANCES, a) : a \in PairedVariants}
    \cup {ListWith(MAX_DISCOVERED_APPLIANCES + 1, 1, a) : a \in PairedVariants}

DiscoveryPayloads ==
    {Undefined, Null, EmptyObj, Str(<<"x">>), Num(1), Arr(<<GoodAppliance>>),
     Obj([appliances |-> Arr(<<>>)])}
    \cup {Obj([discoveredAppliances |-> x]) :
            x \in {Undefined, Null, EmptyObj, Str(<<"x">>), Num(0), GoodAppliance} \cup ApplianceLists}

\* ---- system payloads ----
SystemPayloads == {
    Undefined, Null, EmptyObj, Str(<<>>), Str(<<"o", "k">>), Num(0), Num(1), Bool(TRUE),
    Obj([description |-> Str(<<"o", "k">>), isHealthy |-> Bool(TRUE)]),
    Obj([description |-> Str(<<"o", "k">>), isHealthy |-> Bool(FALSE)]),
    Obj([description |-> Str(<<"o", "k">>), isHealthy |-> Lit("yes")]),
    Obj([description |-> Str(<<"o", "k">>)]),
    Obj([description |-> Str(<<>>), isHealthy |-> Bool(TRUE)]),
    Obj([isHealthy |-> Bool(TRUE)]) }

\* ---- control payloads ----
ControlPayloads == {
    Undefined, Null, EmptyObj, Num(1), Str(<<>>), Str(<<"o", "n">>), Arr(<<>>), Arr(<<Num(1)>>),
    Obj([minimumValue |-> Num(5), maximumValue |-> Num(30)]),
    Obj([discoveredAppliances |-> Arr(<<>>)]) }

\* A target temperature and a temperature mode.
TemperatureState(targetTemperature, temperatureMode) ==
    Obj([targetTemperature |-> Obj([value |-> targetTemperature]),
         temperatureMode   |-> Obj([value |-> temperatureMode])])

\* The payload of a temperature confirmation.
TemperaturePayload(targetTemperature, temperatureMode, previousState) ==
    With(TemperatureState(targetTemperature, temperatureMode), "previousState", previousState)

GoodTemperaturePayload ==
    TemperaturePayload(Num(21), Lit("HEAT"), TemperatureState(Num(19), Lit("COOL")))

TemperaturePayloads ==
    {TemperaturePayload(Num(21), Lit(m), TemperatureState(Num(19), Lit(p))) :
        m \in {"HEAT", "COOL", "AUTO", "ECO"}, p \in {"COOL", "AUTO", "OFF"}}
    \cup {TemperaturePayload(t, Lit("AUTO"), TemperatureState(Num(19), Lit("HEAT"))) :
            t \in {Lit("21"), Null, Num(0)}}
    \cup {TemperaturePayload(Num(21), Lit("AUTO"), TemperatureState(Lit("19"), Lit("HEAT")))}
    \cup {Without(GoodTemperaturePayload, k) :
            k \in {"targetTemperature", "temperatureMode", "previousState"}}
    \cup {With(GoodTemperaturePayload, k, v) :
            k \in {"targetTemperature", "temperatureMode", "previousState"},
            v \in {EmptyObj, Null, Num(21)}}

\* Every temperature request answered by its confirmation.
TemperatureCalls ==
    {<<MakeRequest(Control, Name(stem, "Request")),
       Envelope(ValidHeader(Control, Name(stem, "Confirmation")), p)>> :
        stem \in {"SetTargetTemperature", "IncrementTargetTemperature",
                  "DecrementTargetTemperature"},
        p \in TemperaturePayloads}

\* Error responses, each a pair of a name and a payload.
ValueOutOfRangeResponses ==
    {<<Name("ValueOutOfRange", "Error"), p>> : p \in {
        Obj([minimumValue |-> Num(5), maximumValue |-> Num(30)]),
        Obj([minimumValue |-> Num(0), maximumValue |-> Num(0)]),
        Obj([maximumValue |-> Num(30)]),
        Obj([minimumValue |-> Num(5)]),
        Obj([minimumValue |-> Lit("5"), maximumValue |-> Num(30)]),
        Obj([minimumValue |-> Num(5), maximumValue |-> Lit("30")]),
        Obj([minimumValue |-> Num(5), maximumValue |-> Null]),
        Obj([minimumValue |-> Undefined, maximumValue |-> Num(30)]),
        Obj([range |-> Num(5)]) }}

FirmwareResponses ==
    {<<Name(stem, "Error"), p>> :
        stem \in {"TargetFirmwareOutdated", "TargetBridgeFirmwareOutdated"},
        p \in {
            Obj([minimumFirmwareVersion |-> Lit("17"), currentFirmwareVersion |-> Lit("6")]),
            Obj([currentFirmwareVersion |-> Lit("6")]),
            Obj([minimumFirmwareVersion |-> Lit("17")]),
            Obj([minimumFirmwareVersion |-> Str(<<>>), currentFirmwareVersion |-> Lit("6")]),
            Obj([minimumFirmwareVersion |-> Lit("17"), currentFirmwareVersion |-> Str(<<>>)]),
            Obj([minimumFirmwareVersion |-> Str(<<"1", ".", "7">>),
                 currentFirmwareVersion |-> Lit("6")]),
            Obj([minimumFirmwareVersion |-> Num(17), currentFirmwareVersion |-> Num(6)]),
            Obj([firmware |-> Lit("6")]) }}

RateLimitResponses ==
    {<<Name("RateLimitExceeded", "Error"), p>> : p \in
        {Obj([rateLimit |-> Num(10), timeUnit |-> Lit(u)]) :
            u \in {"MINUTE", "HOUR", "DAY", "WEEK"}}
        \cup {Obj([rateLimit |-> r, timeUnit |-> Lit("HOUR")]) :
                r \in {Num(1), Num(0), Num(-1), Lit("10"), Lit("HOUR"), Null, Undefined}}
        \cup {Obj([rateLimit |-> Lit("HOUR")]),
              Obj([rateLimit |-> Num(10)]),
              Obj([timeUnit |-> Lit("HOUR")]),
              Obj([limit |-> Num(10)])} }

UnwillingToSetValueResponses ==
    {<<Name("UnwillingToSetValue", "Error"), p>> : p \in {
        Obj([errorInfo |-> Obj([code |-> Lit("ThermostatIsOff"),
                                description |-> Str(<<"o", "f", "f">>)])]),
        Obj([errorInfo |-> Obj([code |-> Lit("ThermostatIsOn"),
                                description |-> Str(<<"o", "n">>)])]),
        Obj([errorInfo |-> Obj([code |-> Undefined, description |-> Str(<<"o", "n">>)])]),
        Obj([errorInfo |-> Obj([code |-> Lit("ThermostatIsOff")])]),
        Obj([errorInfo |-> Obj([description |-> Str(<<"o", "f", "f">>)])]),
        Obj([errorInfo |-> EmptyObj]),
        Obj([errorInfo |-> Null]),
        Obj([errorInfo |-> Lit("ThermostatIsOff")]),
        Obj([code |-> Lit("ThermostatIsOff"), description |-> Str(<<"o", "f", "f">>)]) }}

CurrentModeResponses ==
    {<<Name("NotSupportedInCurrentMode", "Error"), p>> : p \in
        {Obj([currentDeviceMode |-> m]) :
            m \in {Lit("HEAT"), Lit("COOL"), Lit("AUTO"), Lit("AWAY"), Lit("OTHER"),
                   Lit("ECO"), Lit("heat"), Str(<<>>), Null, Num(1)}}
        \cup {Obj([mode |-> Lit("HEAT")])} }

OtherErrorResponses == {
    <<Name("DependentServiceUnavailable", "Error"),
      Obj([dependentServiceName |-> Str(<<"h", "u", "b", " ", "1">>)])>>,
    <<Name("DependentServiceUnavailable", "Error"),
      Obj([dependentServiceName |-> Str(<<"h", "u", "b", "!">>)])>>,
    <<Name("DependentServiceUnavailable", "Error"), Obj([service |-> Lit("hub")])>>,
    <<Name("DependentServiceUnavailable", "Error"), Obj([dependentServiceName |-> Num(1)])>>,
    <<Name("UnexpectedInformationReceived", "Error"),
      Obj([faultingParameter |-> Lit("value")])>>,
    <<Name("UnexpectedInformationReceived", "Error"),
      Obj([faultingParameter |-> Str(<<>>)])>>,
    <<Name("UnexpectedInformationReceived", "Error"), Obj([parameter |-> Lit("value")])>>,
    <<Name("TargetOffline", "Error"), EmptyObj>> }

ErrorResponses ==
    ValueOutOfRangeResponses \cup FirmwareResponses \cup RateLimitResponses
    \cup UnwillingToSetValueResponses \cup CurrentModeResponses \cup OtherErrorResponses

\* A request that is no temperature request, and the temperature requests,
\* answered by every error response.
ErrorCalls ==
    {<<MakeRequest(Control, Name(stem, "Request")),
       Envelope(ValidHeader(Control, r[1]), r[2])>> :
        stem \in {"TurnOn", "SetPercentage", "SetTargetTemperature",
                  "IncrementTargetTemperature", "DecrementTargetTemperature"},
        r \in ErrorResponses}

\* ---- responses ----
ValidResponses == {
    Envelope(ValidHeader(Discovery, DiscoverAppliancesResponse),
             Obj([discoveredAppliances |-> Arr(<<>>)])),
    Envelope(ValidHeader(Control, TurnOnConfirmation), EmptyObj),
    Envelope(ValidHeader(Control, TurnOnConfirmation), Obj([discoveredAppliances |-> Arr(<<>>)])),
    Envelope(ValidHeader(System, HealthCheckResponse),
             Obj([description |-> Str(<<"o", "k">>), isHealthy |-> Bool(TRUE)])) }

\* Responses that are absent, empty, or lack a top-level key.
MalformedResponses == {
    Undefined, Null, EmptyObj, Num(0), Str(<<"o", "k">>), Arr(<<>>), Arr(<<EmptyObj>>),
    Obj([body |-> EmptyObj]),
    Obj([header |-> ValidHeader(Control, TurnOnConfirmation)]),
    Obj([header |-> ValidHeader(Discovery, DiscoverAppliancesResponse), body |-> EmptyObj]),
    Obj([payload |-> EmptyObj]),
    Obj([payload |-> Obj([discoveredAppliances |-> Arr(<<>>)]), messageId |-> MessageId]) }

\* Responses with two faults: a bad header and a bad payload.
TwiceFaultyResponses == {
    Envelope(Header(Discovery, DiscoverAppliancesResponse, Lit("1"), MessageId), EmptyObj),
    Envelope(Header(Control, TurnOnConfirmation, Lit("1"), MessageId),
             Obj([power |-> Lit("on")])),
    Envelope(Header(System, HealthCheckResponse, Lit("1"), MessageId), Null) }

\* Headers that are absent, empty, or lack a required key.
MalformedHeaders ==
    {Undefined, Null, EmptyObj, Str(<<"h">>), Arr(<<Lit("2")>>)}
    \cup {Without(ValidHeader(ns, name), k) :
            ns \in {Control}, name \in {TurnOnConfirmation}, k \in Range(REQUIRED_HEADER_KEYS)}
    \cup {Without(Without(ValidHeader(Discovery, DiscoverAppliancesResponse), "messageId"), "name")}

\* A response that answers the request correctly but for the parts given.
ValidPayloadFor(req) ==
    LET ns == Get(Get(req, "header"), "namespace")
    IN  IF ns = Discovery THEN Obj([discoveredAppliances |-> Arr(<<GoodAppliance>>)])
        ELSE IF ns = Control THEN EmptyObj
        ELSE Obj([description |-> Str(<<"o", "k">>), isHealthy |-> Bool(TRUE)])

ValidNameFor(req) ==
    LET name == Get(Get(req, "header"), "name")
    IN  IF name = DiscoverAppliancesRequest THEN DiscoverAppliancesResponse
        ELSE IF name = HealthCheckRequest THEN HealthCheckResponse
        ELSE Name(name.s[1], "Confirmation")

SampleRequests == {MakeRequest(NamespaceOf(name), name) :
                     name \in {DiscoverAppliancesRequest, TurnOnRequest, HealthCheckRequest}}

\* Every request against a few responses.
RequestCalls == Requests \X (ValidResponses \cup MalformedResponses \cup TwiceFaultyResponses)

\* Every response namespace and name against the requests of the interface.
HeaderNameCalls ==
    {<<req, Envelope(ValidHeader(ns, name), p)>> :
        req \in NativeRequests, ns \in Namespaces, name \in ResponseNames,
        p \in {EmptyObj, Obj([power |-> Lit("on")])}}

\* Every payloadVersion and messageId, with a good and a bad payload.
HeaderFormatCalls ==
    UNION {
        {<<req, Envelope(Header(Get(Get(req, "header"), "namespace"), ValidNameFor(req), pv, id), p)>> :
            pv \in PayloadVersions, id \in MessageIds, p \in {ValidPayloadFor(req), Num(1)}} :
        req \in SampleRequests}

HeaderShapeCalls ==
    {<<req, Envelope(h, ValidPayloadFor(req))>> : req \in SampleRequests, h \in MalformedHeaders}

DiscoveryCalls ==
    {<<MakeRequest(Discovery, DiscoverAppliancesRequest),
       Envelope(Header(Discovery, DiscoverAppliancesResponse, pv, MessageId), p)>> :
        pv \in {Lit("2"), Lit("1")}, p \in DiscoveryPayloads}

SystemCalls ==
    {<<MakeRequest(System, HealthCheckRequest), Envelope(ValidHeader(ns, name), p)>> :
        ns \in {System, Control}, name \in {HealthCheckResponse, Lit("0")}, p \in SystemPayloads}

ControlCalls ==
    {<<MakeRequest(Control, name), Envelope(ValidHeader(Control, rname), p)>> :
        name \in {TurnOnRequest, Name("SetTargetTemperature", "Request")},
        rname \in {TurnOnConfirmation, Name("SetTargetTemperature", "Confirmation"),
                   Name("ValueOutOfRange", "Error"), Name("TargetOffline", "Error")},
        p \in ControlPayloads}

Calls ==
    RequestCalls \cup HeaderNameCalls \cup HeaderFormatCalls \cup HeaderShapeCalls
    \cup DiscoveryCalls \cup SystemCalls \cup ControlCalls \cup TemperatureCalls \cup ErrorCalls

\* Calls the process makes again: they take every branch and end in every
\* way, and one of them ends as the runtime decides.
RepeatCalls == {
    <<MakeRequest(System, HealthCheckRequest),
      Envelope(ValidHeader(System, HealthCheckResponse),
               Obj([description |-> Str(<<"o", "k">>), isHealthy |-> Bool(TRUE)]))>>,
    <<MakeRequest(System, HealthCheckRequest),
      Envelope(ValidHeader(System, HealthCheckResponse), Null)>>,
    <<MakeRequest(Discovery, DiscoverAppliancesRequest),
      Envelope(ValidHeader(Discovery, DiscoverAppliancesResponse),
               Obj([discoveredAppliances |-> Arr(<<GoodAppliance>>)]))>>,
    <<MakeRequest(Discovery, DiscoverAppliancesRequest),
      Envelope(ValidHeader(Discovery, DiscoverAppliancesResponse),
               Obj([discoveredAppliances |-> Arr(<<With(GoodAppliance, "additionalApplianceDetails",
                                                       Obj([blob |-> Repeat("x", 5001)]))>>)]))>>,
    <<MakeRequest(Control, TurnOnRequest),
      Envelope(ValidHeader(Control, TurnOnConfirmation), EmptyObj)>>,
    <<MakeRequest(Control, Name("SetTargetTemperature", "Request")),
      Envelope(ValidHeader(Control, Name("SetTargetTemperature", "Confirmation")),
               GoodTemperaturePayload)>>,
    <<Null, Envelope(ValidHeader(Control, TurnOnConfirmation), EmptyObj)>> }

\* No call is remembered / the call and how it ended.
NoCall == [made |-> FALSE, request |-> Undefined, response |-> Undefined, outcome |-> Pending]
Made(req, resp, result) ==
    [made |-> TRUE, request |-> req, response |-> resp, outcome |-> result]

(***************************************************************************)
(* The call, stage by stage.                                               *)
(***************************************************************************)
Init ==
    /\ \E call \in Calls : request = call[1] /\ response = call[2]
    /\ pc = "request"
    /\ branch = "none"
    /\ outcome = Pending
    /\ thrownAt = "none"
    /\ requestNamespace = Undefined
    /\ payload = Undefined
    /\ platform \in Runtimes
    /\ earlier = NoCall
    /\ context = Undefined
    /\ succeeded = <<>>
    /\ validated = <<>>

\* The stage ends the call with exception e.
Raise(e) ==
    /\ pc' = "thrown"
    /\ outcome' = e
    /\ thrownAt' = pc

\* The stage went through: the call goes on at position next.
Pass(next) ==
    /\ pc' = next
    /\ UNCHANGED <<outcome, thrownAt>>

\* validation.js:179-191
ValidateRequest ==
    /\ pc = "request"
    /\ IF RequestRule(request) = Ok
       THEN /\ Pass("response")
            /\ requestNamespace' = Get(Get(request, "header"), "namespace")
       ELSE /\ Raise(RequestRule(request))
            /\ UNCHANGED requestNamespace
    /\ UNCHANGED <<request, response, branch, payload, platform, earlier, context, succeeded, validated>>

\* validation.js:193-204
ValidateResponseKeys ==
    /\ pc = "response"
    /\ IF ResponseRule(response) = Ok
       THEN Pass("dispatch")
       ELSE Raise(ResponseRule(response))
    /\ UNCHANGED <<request, response, branch, requestNamespace, payload, platform, earlier, context, succeeded, validated>>

\* The dispatch on the namespace the request's name belongs to.
Dispatch_OnName ==
    /\ pc = "dispatch"
    /\ LET to == BranchOf(NamespaceOf(Get(Get(request, "header"), "name")))
       IN  IF to # "none"
           THEN /\ Pass("header")
                /\ branch' = to
           ELSE /\ Raise(Throw(Lit("Request"), "request is invalid", request))
                /\ UNCHANGED branch
    /\ UNCHANGED <<request, response, requestNamespace, payload, platform, earlier,
                   context, succeeded, validated>>

\* validation.js:206-217
Dispatch ==
    /\ pc = "dispatch"
    /\ LET to == BranchOf(Get(Get(request, "header"), "namespace"))
       IN  IF to # "none"
           THEN /\ Pass("header")
                /\ branch' = to
           ELSE /\ Raise(Throw(Lit("Request"), "request is invalid", request))
                /\ UNCHANGED branch
    /\ UNCHANGED <<request, response, requestNamespace, payload, platform, earlier, context, succeeded, validated>>

\* The call of validateResponseHeader that opens each branch
\* (validation.js:228, 262, 362).
\* The stage with a header that passed marked as checked.
ValidateHeader_Marking ==
    /\ pc = "header"
    /\ IF validateResponseHeader(request, response) = Ok
       THEN /\ Pass("payload")
            /\ response' = With(response, "header",
                                With(Get(response, "header"), "checked", Bool(TRUE)))
       ELSE /\ Raise(validateResponseHeader(request, response))
            /\ UNCHANGED response
    /\ UNCHANGED <<request, branch, requestNamespace, payload, platform, earlier, context, succeeded, validated>>

ValidateHeader ==
    /\ pc = "header"
    /\ IF validateResponseHeader(request, response) = Ok
       THEN Pass("payload")
       ELSE Raise(validateResponseHeader(request, response))
    /\ UNCHANGED <<request, response, branch, requestNamespace, payload, platform, earlier, context, succeeded, validated>>

\* The stage of a branch after its header check: the call returns or throws.
Finish(result) ==
    IF result = Ok
    THEN /\ pc' = "returned"
         /\ outcome' = Returned
         /\ UNCHANGED thrownAt
    ELSE Raise(result)

\* The stage with the runtime's answer taken anew at every call.
ValidateDiscoveryPayload_AnyRuntime ==
    /\ pc = "payload"
    /\ branch = "discovery"
    /\ \E runtime \in Runtimes :
          Finish(validateDiscoveryPayload(response, runtime))
    /\ UNCHANGED <<request, response, branch, requestNamespace, payload, platform, earlier, context, succeeded, validated>>

ValidateDiscoveryPayload ==
    /\ pc = "payload"
    /\ branch = "discovery"
    /\ Finish(validateDiscoveryPayload(response, platform))
    /\ UNCHANGED <<request, response, branch, requestNamespace, payload, platform, earlier, context, succeeded, validated>>

ValidateControlPayload ==
    /\ pc = "payload"
    /\ branch = "control"
    /\ Finish(validateControlPayload(request, response))
    /\ UNCHANGED <<request, response, branch, requestNamespace, payload, platform, earlier, context, succeeded, validated>>

ValidateSystemPayload ==
    /\ pc = "payload"
    /\ branch = "system"
    /\ payload' = Get(response, "payload")
    /\ Finish(validateSystemPayload(response))
    /\ UNCHANGED <<request, response, branch, requestNamespace, platform, earlier, context, succeeded, validated>>

\* The process calls validateResponse again, after the call before ended
\* (validation.js:171).  The module's globals stay as the calls before left
\* them.  The call that ended may be remembered.
CallAgain ==
    /\ pc \in {"returned", "thrown"}
    /\ \E call \in RepeatCalls : request' = call[1] /\ response' = call[2]
    /\ pc' = "request"
    /\ branch' = "none"
    /\ outcome' = Pending
    /\ thrownAt' = "none"
    /\ \/ earlier' = earlier
       \/ /\ <<request, response>> \in RepeatCalls
          /\ earlier' = Made(request, response, outcome)
    /\ UNCHANGED <<requestNamespace, payload, platform, context, succeeded, validated>>

Next ==
    \/ ValidateRequest
    \/ ValidateResponseKeys
    \/ Dispatch
    \/ ValidateHeader
    \/ ValidateDiscoveryPayload
    \/ ValidateControlPayload
    \/ ValidateSystemPayload
    \/ CallAgain

Spec == Init /\ [][Next]_vars

(***************************************************************************)
(* A call of validateContext.                                              *)
(***************************************************************************)
\* How far from the limit the remaining times tried lie.
TimeWindow == 60

\* Remaining times around the limit, none left, and the longest timeouts.
RemainingTimes ==
    ((TimeoutLimit - TimeWindow)..(TimeoutLimit + TimeWindow)) \cup {0, 1, 300000, 900000}

ContextInit ==
    /\ context \in {Context(millis) : millis \in RemainingTimes}
    /\ pc = "context"
    /\ request = Undefined
    /\ response = Undefined
    /\ branch = "none"
    /\ outcome = Pending
    /\ thrownAt = "none"
    /\ requestNamespace = Undefined
    /\ payload = Undefined
    /\ platform \in Runtimes
    /\ earlier = NoCall
    /\ succeeded = <<>>
    /\ validated = <<>>

\* validation.js:157-169
ValidateContext ==
    /\ pc = "context"
    /\ Finish(validateContext(context))
    /\ UNCHANGED <<request, response, branch, requestNamespace, payload, platform, earlier,
                   context, succeeded, validated>>

ContextNext == ValidateContext

ContextSpec == ContextInit /\ [][ContextNext]_vars


(***************************************************************************)
(* The sample Lambda handler (lambda.js).  validator is the module of      *)
(* validation.js; every function of the handler runs to its end within    *)
(* one invocation, its callbacks included: nothing in it is deferred.      *)
(***************************************************************************)
\* string.trim(), for strings segmented into characters whose white space
\* is the space.
Trim(string) ==
    LET inked == {i \in 1..Len(string.s) : string.s[i] # " "}
    IN  IF inked = {} THEN Str(<<>>)
        ELSE Str(SubSeq(string.s, Min(inked), CHOOSE x \in inked : \A y \in inked : y <= x))

\* The number a string of digits spells.
RECURSIVE DigitsValue(_)
DigitsValue(digits) ==
    IF digits = <<>> THEN 0
    ELSE 10 * DigitsValue(SubSeq(digits, 1, Len(digits) - 1))
         + (CHOOSE n \in 0..9 : ToString(n) = digits[Len(digits)])

\* number == value, for a string of the model (one that spells a number
\* spells it in digits) or a number.
LooseEquals(number, value) ==
    CASE value.t = "number" -> value.n = number.n
      [] value.t = "string" ->
            /\ Len(value.s) > 0
            /\ \A i \in 1..Len(value.s) : value.s[i] \in Digit
            /\ DigitsValue(value.s) = number.n
      [] OTHER -> FALSE

\* JSON.stringify(value), as the segments of the text.  The members of an
\* object come in some order; a string is quoted as it stands (the strings
\* serialized here hold no quote and no backslash).
RECURSIVE StringifySegments(_), StringifyElements(_), StringifyMembers(_, _)
StringifySegments(value) ==
    CASE value.t = "string"  -> <<"\"">> \o value.s \o <<"\"">>
      [] value.t = "number"  -> <<ToString(value.n)>>
      [] value.t = "boolean" -> <<IF value.b THEN "true" ELSE "false">>
      [] value.t = "array"   -> <<"[">> \o StringifyElements(value.a) \o <<"]">>
      [] value.t = "object"  ->
            <<"{">>
            \o StringifyMembers(value, {k \in DOMAIN value.o : value.o[k] # Undefined})
            \o <<"}">>
      [] OTHER               -> <<"null">>
StringifyElements(elements) ==
    IF elements = <<>> THEN <<>>
    ELSE StringifySegments(Head(elements))
         \o (IF Len(elements) > 1 THEN <<",">> ELSE <<>>)
         \o StringifyElements(Tail(elements))
StringifyMembers(object, keys) ==
    IF keys = {} THEN <<>>
    ELSE LET key == CHOOSE k \in keys : TRUE
         IN  <<"\"", key, "\"", ":">> \o StringifySegments(object.o[key])
             \o (IF keys # {key} THEN <<",">> ELSE <<>>)
             \o StringifyMembers(object, keys \ {key})

\* JSON.stringify(value): undefined for undefined, a string otherwise.
Stringify(value) == IF value = Undefined THEN Undefined ELSE Str(StringifySegments(value))

\* lambda.js:791-800
APPLIANCE_CONTROLS == <<
    Name("TurnOn", "Request"),
    Name("TurnOff", "Request"),
    Name("SetTargetTemperature", "Request"),
    Name("IncrementTargetTemperature", "Request"),
    Name("DecrementTargetTemperature", "Request"),
    Name("SetPercentage", "Request"),
    Name("IncrementPercentage", "Request"),
    Name("DecrementPercentage", "Request") >>

\* lambda.js:840-845 and its likes: additionalApplianceDetails of a device.
ExtraDetails == Obj([
    extraDetail1 |-> Lit("optionalDetailForSkillAdapterToReferenceThisDevice"),
    extraDetail2 |-> Lit("There can be multiple entries"),
    extraDetail3 |-> Lit("but they should only be used for reference purposes."),
    extraDetail4 |-> Lit("This is not a suitable place to maintain current device state") ])

\* A device of the canned data.
Device(applianceId, modelName, friendlyName, friendlyDescription, actions) == Obj([
    applianceId                |-> applianceId,
    manufacturerName           |-> Lit("SmartHome Product Company"),
    modelName                  |-> modelName,
    version                    |-> Str(<<"1", ".", "0">>),
    friendlyName               |-> friendlyName,
    friendlyDescription        |-> friendlyDescription,
    isReachable                |-> Bool(TRUE),
    actions                    |-> Arr(actions),
    additionalApplianceDetails |-> ExtraDetails ])

\* lambda.js:807-906.  USER_DEVICES.users
USER_DEVICES == <<
    Obj([access_token |-> Num(1),
         devices |-> Arr(<<
            Device(Lit("unique-id-for-non-dimmable-bulb-or-switch-specific-to-user1"),
                   Lit("NON-DIMMABLE BULB MODEL ABC"),
                   Lit("[non-dimmable] Device name set by user in partner app"),
                   Lit("Smart light bulb from SmartHome Product Company"),
                   <<Lit("turnOn"), Lit("turnOff")>>),
            Device(Lit("unique-id-for-dimmable-bulb-or-switch-specific-to-user1"),
                   Lit("DIMMABLE BULB MODEL XYZ"),
                   Lit("[dimmable] Device name set by user in partner app"),
                   Lit("Dimmable light bulb from SmartHome Product Company"),
                   <<Lit("turnOn"), Lit("turnOff"), Lit("setPercentage"),
                     Lit("incrementPercentage"), Lit("decrementPercentage")>>),
            Device(Lit("unique-id-for-thermostat-specific-to-user1"),
                   Lit("THERMOSTAT MODEL 123"),
                   Lit("[thermostat] Device name set by user in partner app"),
                   Lit("Smart Thermostat from SmartHome Product Company"),
                   <<Lit("turnOn"), Lit("turnOff"), Lit("setTargetTemperatire"),
                     Lit("increaseTargetTemperature"), Lit("decreaseTargetTemperature")>>) >>)]) >>

\* lambda.js:421-423: the users whose access_token == access_token.
UsersOf(access_token) ==
    SelectSeq(USER_DEVICES, LAMBDA user : LooseEquals(Get(user, "access_token"), access_token))

\* lambda.js:419-425.  result[0].devices throws when no user matches.
getDevicesFromPartnerCloud(access_token) ==
    IF UsersOf(access_token) = <<>> THEN TypeError
    ELSE Stringify(Get(UsersOf(access_token)[1], "devices"))

\* lambda.js:436-442
validAccessToken(user_access_token) == TRUE

\* lambda.js:405-409: the response built by response(header, name, payload).
\* It holds the header it was given, with header.name assigned.
ResponseOf(header, name, payload_) == Envelope(With(header, "name", name), payload_)

\* validation.js:171-218, as the one call the handler makes of it.
validateResponse(req, resp, runtime) ==
    LET to == BranchOf(Get(Get(req, "header"), "namespace"))
    IN  IF RequestRule(req) # Ok THEN RequestRule(req)
        ELSE IF ResponseRule(resp) # Ok THEN ResponseRule(resp)
        ELSE IF to = "none" THEN Throw(Lit("Request"), "request is invalid", req)
        ELSE IF validateResponseHeader(req, resp) # Ok THEN validateResponseHeader(req, resp)
        ELSE IF to = "discovery" THEN validateDiscoveryPayload(resp, runtime)
        ELSE IF to = "control" THEN validateControlPayload(req, resp)
        ELSE validateSystemPayload(resp)

\* The globals after that call (validation.js:187, 233).
requestNamespaceAfter(req, before) ==
    IF RequestRule(req) = Ok THEN Get(Get(req, "header"), "namespace") ELSE before
payloadAfter(req, resp, before) ==
    IF /\ RequestRule(req) = Ok
       /\ ResponseRule(resp) = Ok
       /\ BranchOf(Get(Get(req, "header"), "namespace")) = "system"
       /\ validateResponseHeader(req, resp) = Ok
    THEN Get(resp, "payload") ELSE before

\* The payloads of the requests the handler is invoked with.
AccessTokens == {Str(<<"1">>), Str(<<" ", "1", " ">>), Str(<<"0", "1">>), Str(<<"2">>),
                 Str(<<"t", "o", "k">>), Str(<<>>), Str(<<" ">>), Num(1), Null}

RequestedAppliances == {
    Obj([applianceId |-> Lit("lamp-1"), additionalApplianceDetails |-> EmptyObj]),
    Obj([applianceId |-> Lit("lamp-1"),
         additionalApplianceDetails |-> Obj([simulateResponse |-> Name("TargetOffline", "Error")])]),
    Obj([applianceId |-> Lit("lamp-1"),
         additionalApplianceDetails |-> Obj([simulateResponse |-> Str(<<>>)])]),
    Obj([applianceId |-> Lit("lamp-1")]),
    Obj([applianceId |-> Str(<<>>), additionalApplianceDetails |-> EmptyObj]),
    Obj([additionalApplianceDetails |-> EmptyObj]),
    Null }

RequestPayloads ==
    {EmptyObj, Null}
    \cup {Obj([accessToken |-> token]) : token \in AccessTokens}
    \cup {Obj([accessToken |-> token, appliance |-> appliance]) :
            token \in AccessTokens, appliance \in RequestedAppliances}

\* The requests the handler is invoked with.
LambdaRequests ==
    {Envelope(ValidHeader(namespace, name), p) :
        namespace \in {Discovery, Control, System},
        name \in {DiscoverAppliancesRequest, TurnOnRequest,
                  Name("SetPercentage", "Request"), Name("Lock", "Request")},
        p \in RequestPayloads}
    \cup {Null, EmptyObj, Obj([header |-> Null, payload |-> EmptyObj])}

LambdaInit ==
    /\ request \in LambdaRequests
    /\ context = Context(3000)
    /\ pc = "handler"
    /\ response = Undefined
    /\ branch = "none"
    /\ outcome = Pending
    /\ thrownAt = "none"
    /\ requestNamespace = Undefined
    /\ payload = Undefined
    /\ platform \in Runtimes
    /\ earlier = NoCall
    /\ succeeded = <<>>
    /\ validated = <<>>

\* The function ends without an exception.
Return ==
    /\ pc' = "returned"
    /\ outcome' = Returned
    /\ UNCHANGED thrownAt

\* lambda.js:21-67.  error is declared nowhere: the default case ends in a
\* ReferenceError before context.succeed is called.
Handler ==
    /\ pc = "handler"
    /\ LET namespace == Get(Get(request, "header"), "namespace")
       IN  IF IsNullish(request) \/ IsNullish(Get(request, "header")) THEN Raise(TypeError)
           ELSE IF namespace = Discovery THEN Pass("handleDiscovery")
           ELSE IF namespace = Control THEN Pass("handleControl")
           ELSE Raise(ReferenceError)
    /\ UNCHANGED <<request, response, branch, requestNamespace, payload, platform, earlier,
                   context, succeeded, validated>>

\* lambda.js:90-144.  header is request.header itself: the assignment of
\* header.name changes the request that is then passed to validateResponse.
HandleDiscovery ==
    /\ pc = "handleDiscovery"
    /\ LET accessToken == Get(Get(request, "payload"), "accessToken")
           user_access_token == Trim(accessToken)
           discoveredAppliances == getDevicesFromPartnerCloud(user_access_token)
           header == With(Get(request, "header"), "name",
                          Name("DiscoveredAppliances", "Response"))
           request_ == With(request, "header", header)
           response_ == Envelope(header, Obj([discoveredAppliances |-> discoveredAppliances]))
           result == validateResponse(request_, response_, platform)
       IN  IF accessToken.t # "string"
           THEN /\ Raise(TypeError)
                /\ UNCHANGED <<request, response, requestNamespace, payload, succeeded, validated>>
           ELSE IF Falsy(user_access_token)
           THEN /\ Raise(ReferenceError)
                /\ UNCHANGED <<request, response, requestNamespace, payload, succeeded, validated>>
           ELSE IF discoveredAppliances = TypeError
           THEN /\ Raise(TypeError)
                /\ UNCHANGED <<request, response, requestNamespace, payload, succeeded, validated>>
           ELSE /\ request' = request_
                /\ response' = response_
                /\ validated' = Append(validated, Made(request_, response_, result))
                /\ requestNamespace' = requestNamespaceAfter(request_, requestNamespace)
                /\ payload' = payloadAfter(request_, response_, payload)
                /\ IF result = Ok
                   THEN /\ succeeded' = Append(succeeded, response_)
                        /\ Return
                   ELSE /\ Raise(result)
                        /\ UNCHANGED succeeded
    /\ UNCHANGED <<branch, platform, earlier, context>>

\* lambda.js:150-387.  validateDevice (452-465) calls its callback from
\* bridgeOnline (748-762) and again from online (771-789), each time only
\* with an error, appliance.additionalApplianceDetails.simulateResponse; the
\* callback then hands response(request.header, error, payload) to
\* context.succeed (220).  The switch on the request name (223-385), where
\* the confirmations are built and validated, runs when the callback is
\* called without an error, which validateDevice never does.
HandleControl ==
    /\ pc = "handleControl"
    /\ LET header == Get(request, "header")
           accessToken == Get(Get(request, "payload"), "accessToken")
           user_access_token == Trim(accessToken)
           appliance == Get(Get(request, "payload"), "appliance")
           applianceId == Get(appliance, "applianceId")
           details == Get(appliance, "additionalApplianceDetails")
           simulateResponse == Get(details, "simulateResponse")
           unexpected == ResponseOf(header, Name("UnexpectedInformationReceived", "Error"),
                                    Obj([faultingParameter |-> applianceId]))
           simulated == ResponseOf(header, simulateResponse, Undefined)
           Finished(responses) ==
                /\ succeeded' = succeeded \o responses
                /\ request' = IF responses = <<>> THEN request
                              ELSE With(request, "header", Get(responses[1], "header"))
                /\ Return
           Thrown(e) ==
                /\ Raise(e)
                /\ UNCHANGED <<request, succeeded>>
       IN  IF Get(header, "namespace") # Control THEN Thrown(ReferenceError)
           ELSE IF ~Includes(APPLIANCE_CONTROLS, Get(header, "name")) THEN Thrown(ReferenceError)
           ELSE IF accessToken.t # "string" THEN Thrown(TypeError)
           ELSE IF Falsy(user_access_token) THEN Thrown(ReferenceError)
           ELSE IF ~validAccessToken(user_access_token) THEN Thrown(ReferenceError)
           ELSE IF IsNullish(appliance) THEN Thrown(TypeError)
           ELSE IF Falsy(applianceId) THEN Finished(<<unexpected>>)
           ELSE IF IsNullish(details) THEN Thrown(TypeError)
           ELSE IF Falsy(simulateResponse) THEN Finished(<<>>)
           ELSE Finished(<<simulated, simulated>>)
    /\ UNCHANGED <<response, branch, requestNamespace, payload, platform, earlier, context,
                   validated>>

LambdaNext ==
    \/ Handler
    \/ HandleDiscovery
    \/ HandleControl

LambdaSpec == LambdaInit /\ [][LambdaNext]_vars


(***************************************************************************)
(* Properties.                                                             *)
(***************************************************************************)
Ended == pc \in {"returned", "thrown"}

\* The call threw the validation error title :: message.
Threw(title, message) ==
    /\ pc = "thrown"
    /\ outcome.kind = "Error"
    /\ outcome.text.title = title
    /\ outcome.text.message = message

\* The request is a mapping whose header is a mapping with a namespace.
ExposesNamespace(req) ==
    /\ req.t = "object"
    /\ In("header", req)
    /\ In("namespace", Get(req, "header"))

\* The response is a mapping with the keys header and payload.
HasTopLevelKeys(resp) == resp.t = "object" /\ In("header", resp) /\ In("payload", resp)

\* The request exposes one of the three namespaces of the interface.
ValidRequest(req) ==
    /\ ExposesNamespace(req)
    /\ Get(Get(req, "header"), "namespace") \in {Discovery, Control, System}

\* C1: validateResponse is fail-fast in the order (1) request present and
\* exposing header.namespace, (2) response present with the keys header
\* and payload, (3) header rules, (4) payload rules of the branch: the one
\* error raised is that of the first violated rule in this order.
C1_FailFastInOrder ==
    Ended =>
        /\ ~ExposesNamespace(request) =>
              /\ pc = "thrown"
              /\ outcome.kind = "Error"
              /\ outcome.text.title = Lit("Request")
        /\ ExposesNamespace(request) /\ ~HasTopLevelKeys(response) =>
              pc = "thrown" /\ thrownAt = "response"
        /\ ValidRequest(request) /\ HasTopLevelKeys(response) =>
              IF validateResponseHeader(request, response) # Ok
              THEN /\ thrownAt = "header"
                   /\ outcome = validateResponseHeader(request, response)
              ELSE thrownAt \in {"payload", "none"}

\* C2: whatever the input, a failure of validateResponse is an Error built
\* by generateErrorMessage, with its title, its message and its data; no
\* TypeError and no ReferenceError escapes.
C2_OnlyValidationErrors ==
    pc = "thrown" =>
        /\ outcome.kind = "Error"
        /\ DOMAIN outcome.text = {"title", "message", "data"}

\* C3 as claimed: with a valid request, every response that lacks the key
\* header or the key payload fails with 'header is missing' or 'payload is
\* missing', naming a key the response lacks.
C3_MissingKeyNamed ==
    Ended /\ ValidRequest(request) /\ ~HasTopLevelKeys(response) =>
        /\ pc = "thrown"
        /\ outcome.kind = "Error"
        /\ \E key \in {"header", "payload"} :
              /\ ~In(key, response)
              /\ outcome.text.message = key \o " is missing"

\* C3 as amended: with a valid request, a response that is a mapping with
\* at least one key and lacks header fails with 'Response :: header is
\* missing'; one that has header and lacks payload fails with 'Response ::
\* payload is missing'; a response that is absent or a mapping with no key
\* fails with 'Response :: response is missing'.
C3_MissingKeyNamedUnlessEmpty ==
    Ended /\ ValidRequest(request) =>
        /\ response.t = "object" /\ DOMAIN response.o # {} /\ ~In("header", response) =>
              /\ Threw(Lit("Response"), "header is missing")
              /\ outcome.text.data = response
        /\ response.t = "object" /\ In("header", response) /\ ~In("payload", response) =>
              /\ Threw(Lit("Response"), "payload is missing")
              /\ outcome.text.data = response
        /\ IsNullish(response) \/ response = EmptyObj =>
              Threw(Lit("Response"), "response is missing")

\* A response with a header and no payload was reported.
C3_Witness ==
    /\ ValidRequest(request)
    /\ In("header", response) /\ ~In("payload", response)
    /\ Threw(Lit("Response"), "payload is missing")

\* The request is absent, exposes no header.namespace, or its namespace is
\* none of the three.
UnroutableRequest(req) == ~ValidRequest(req)

HeaderChecked == pc \in {"payload", "returned"} \/ (pc = "thrown" /\ thrownAt \in {"header", "payload"})

\* The header rules refused the response.
HeaderRejected == pc = "thrown" /\ thrownAt = "header"

\* The response header has the four keys, with a payloadVersion and a
\* messageId that the format rules of the validator accept.
WellFormedHeader(header) ==
    /\ header.t = "object"
    /\ \A key \in {"namespace", "name", "payloadVersion", "messageId"} : In(key, header)
    /\ Get(header, "payloadVersion") = Lit("2")
    /\ Get(header, "messageId") = MessageId

\* The request is one of the eight control requests, sent in the control
\* namespace.
ControlRequest(req) ==
    /\ ValidRequest(req)
    /\ Get(Get(req, "header"), "namespace") = Control
    /\ \E stem \in {"TurnOn", "TurnOff", "SetTargetTemperature", "IncrementTargetTemperature",
                    "DecrementTargetTemperature", "SetPercentage", "IncrementPercentage",
                    "DecrementPercentage"} :
          Get(Get(req, "header"), "name") = Name(stem, "Request")

\* XConfirmation for the request name XRequest.
ConfirmationOf(request_name) == Name(request_name.s[1], "Confirmation")

\* The 21 control error names of the interface vocabulary.
InterfaceErrorNames == {Name(stem, "Error") : stem \in {
    "ValueOutOfRange", "TargetOffline", "BridgeOffline", "NoSuchTarget", "DriverInternal",
    "DependentServiceUnavailable", "TargetConnectivityUnstable",
    "TargetBridgeConnectivityUnstable", "TargetFirmwareOutdated",
    "TargetBridgeFirmwareOutdated", "TargetHardwareMalfunction",
    "TargetBridgeHardwareMalfunction", "UnwillingToSetValue", "RateLimitExceeded",
    "NotSupportedInCurrentMode", "ExpiredAccessToken", "InvalidAccessToken",
    "UnsupportedTarget", "UnsupportedOperation", "UnsupportedTargetSetting",
    "UnexpectedInformationReceived"}}

\* C5: for each of the eight control requests XRequest, header validation
\* accepts a control-namespace response named XConfirmation and rejects
\* every other response name that is not an error name of the interface,
\* the confirmation name of another control request included.
C5_ConfirmationNameOfRequest ==
    LET request_name == Get(Get(request, "header"), "name")
        header == Get(response, "header")
        name == Get(header, "name")
    IN  /\ HeaderChecked
        /\ ControlRequest(request)
        /\ WellFormedHeader(header)
        /\ Get(header, "namespace") = Control
        => /\ name = ConfirmationOf(request_name) => ~HeaderRejected
           /\ name # ConfirmationOf(request_name) /\ name \notin InterfaceErrorNames =>
                 /\ HeaderRejected
                 /\ outcome.kind = "Error"
                 /\ outcome.text.title = Lit("Control Response")

\* C6: for a control request, a control-namespace response named by any of
\* the 21 control error names of the interface passes the header name rule:
\* the header is not refused with a 'Control Response' error.
C6_InterfaceErrorNamesAccepted ==
    LET header == Get(response, "header")
    IN  /\ HeaderChecked
        /\ ControlRequest(request)
        /\ WellFormedHeader(header)
        /\ Get(header, "namespace") = Control
        /\ Get(header, "name") \in InterfaceErrorNames
        => ~HeaderRejected

\* The response answers the request with the right namespace and name.
AnswersByName(req, resp) ==
    LET request_name == Get(Get(req, "header"), "name")
        header == Get(resp, "header")
    IN  /\ ValidRequest(req)
        /\ request_name \in {DiscoverAppliancesRequest, TurnOnRequest, HealthCheckRequest}
        /\ header.t = "object"
        /\ \A key \in {"namespace", "name", "payloadVersion", "messageId"} : In(key, header)
        /\ Get(header, "namespace") = Get(Get(req, "header"), "namespace")
        /\ Get(header, "name") =
              (IF request_name = TurnOnRequest THEN TurnOnConfirmation
               ELSE Name(request_name.s[1], "Response"))

\* payloadVersion is the string "2"; messageId is a string of 1 to 128
\* characters of [a-zA-Z0-9-].
FormatAsSpecified(header) ==
    LET messageId == Get(header, "messageId")
    IN  /\ Get(header, "payloadVersion") = Lit("2")
        /\ messageId.t = "string"
        /\ Length(messageId) >= 1
        /\ Length(messageId) <= 128
        /\ MatchesClass(messageId, AlphaNum \cup {"-"})

\* C7: in the three branches and whatever the payload, a response header
\* passes the common format rules if and only if payloadVersion is the
\* string "2" and messageId is non-empty, at most 128 characters long and
\* made of characters of [a-zA-Z0-9-].
C7_HeaderFormat ==
    HeaderChecked /\ AnswersByName(request, response) =>
        (~HeaderRejected <=> FormatAsSpecified(Get(response, "header")))

\* A discovery request answered with a header that validation accepts.
DiscoveryPayloadChecked ==
    /\ Ended
    /\ branch = "discovery"
    /\ pc = "thrown" => thrownAt = "payload"

\* Appliances that satisfy every rule of the interface: one without and one
\* with additionalApplianceDetails.
ValidAppliances == {GoodAppliance, DetailedAppliance}

\* C8: for a discovery request with a valid response header, validation
\* fails when payload.discoveredAppliances is missing, is no sequence or has
\* more than 300 elements, and passes for every length from 0 to 300 when
\* every appliance is valid.
C8_DiscoveredAppliancesLength ==
    LET payload_ == Get(response, "payload")
        discoveredAppliances == Get(payload_, "discoveredAppliances")
    IN  DiscoveryPayloadChecked =>
           /\ ~In("discoveredAppliances", payload_) => pc = "thrown"
           /\ discoveredAppliances.t # "array" => pc = "thrown"
           /\ discoveredAppliances.t = "array" =>
                 /\ Len(discoveredAppliances.a) > 300 => pc = "thrown"
                 /\ /\ Len(discoveredAppliances.a) <= 300
                    /\ \A i \in 1..Len(discoveredAppliances.a) :
                          discoveredAppliances.a[i] \in ValidAppliances
                    => pc = "returned"

\* The loop over the appliances of a discovery response was entered.
AppliancesChecked ==
    /\ DiscoveryPayloadChecked
    /\ Get(Get(response, "payload"), "discoveredAppliances").t = "array"
    /\ Len(Get(Get(response, "payload"), "discoveredAppliances").a) <= 300

\* The nine keys an appliance must have.
NineKeys == {"applianceId", "manufacturerName", "modelName", "version", "friendlyName",
             "friendlyDescription", "isReachable", "actions", "additionalApplianceDetails"}

\* The keys the appliance lacks.
Lacking(appliance) == {key \in NineKeys : ~In(key, appliance)}

\* C9: an appliance (a mapping or a list) that lacks one of the nine
\* required keys makes validation fail; when the appliances before it are
\* valid, the error cites a key the appliance lacks and carries the
\* appliance, whatever the values of its other keys: the keys are checked
\* before any value of the appliance.
C9_RequiredApplianceKeys ==
    LET appliances == Get(Get(response, "payload"), "discoveredAppliances").a
    IN  AppliancesChecked =>
           \A i \in 1..Len(appliances) :
              ~InThrows(appliances[i]) /\ Lacking(appliances[i]) # {} =>
                 /\ pc = "thrown"
                 /\ (\A j \in 1..(i - 1) : appliances[j] = GoodAppliance) =>
                       /\ outcome.kind = "Error"
                       /\ outcome.text.title = Get(Get(response, "header"), "name")
                       /\ \E key \in Lacking(appliances[i]) :
                             outcome.text.message = key \o " is missing"
                       /\ outcome.text.data = appliances[i]

\* The second appliance lacks friendlyDescription and has an empty
\* applianceId, and the error cites friendlyDescription.
C9_Witness ==
    LET appliances == Get(Get(response, "payload"), "discoveredAppliances").a
    IN  /\ AppliancesChecked
        /\ Len(appliances) = 2
        /\ appliances[1] = GoodAppliance
        /\ Lacking(appliances[2]) = {"friendlyDescription"}
        /\ Get(appliances[2], "applianceId") = Str(<<>>)
        /\ Threw(DiscoverAppliancesResponse, "friendlyDescription is missing")

\* Valid appliances that are reachable or not.
ReachableOrNot == {With(GoodAppliance, "isReachable", Bool(b)) : b \in BOOLEAN}

\* C10: an appliance whose isReachable is no boolean makes validation fail;
\* when the appliance is otherwise valid and follows valid appliances, the
\* error is 'isReachable must be a boolean' if isReachable is no boolean
\* (the string "true" included), and true and false are accepted: that
\* error is not raised for the appliance, and validation passes when the
\* appliances after it are valid too.
C10_IsReachableBoolean ==
    LET appliances == Get(Get(response, "payload"), "discoveredAppliances").a
    IN  AppliancesChecked =>
           \A i \in 1..Len(appliances) :
              LET isReachable == Get(appliances[i], "isReachable")
              IN  /\ isReachable.t # "boolean" => pc = "thrown"
                  /\ /\ \A j \in 1..(i - 1) : appliances[j] \in ReachableOrNot
                     /\ appliances[i] = With(GoodAppliance, "isReachable", isReachable)
                     => IF isReachable.t # "boolean"
                        THEN /\ Threw(Get(Get(response, "header"), "name"),
                                      "isReachable must be a boolean")
                             /\ outcome.text.data = appliances[i]
                        ELSE /\ ~(/\ outcome.kind = "Error"
                                  /\ outcome.text.message = "isReachable must be a boolean"
                                  /\ outcome.text.data = appliances[i])
                             /\ (\A j \in (i + 1)..Len(appliances) :
                                    appliances[j] \in ReachableOrNot)
                                   => pc = "returned"

\* The string "true" was refused, and the boolean false accepted.
C10_Witness ==
    LET appliances == Get(Get(response, "payload"), "discoveredAppliances").a
    IN  /\ AppliancesChecked
        /\ Len(appliances) = 2
        /\ appliances[1] = With(GoodAppliance, "isReachable", Bool(FALSE))
        /\ appliances[2] = With(GoodAppliance, "isReachable", Lit("true"))
        /\ Threw(DiscoverAppliancesResponse, "isReachable must be a boolean")


\* The appliance is a mapping with the nine keys whose text fields are
\* strings.
TextualAppliance(appliance) ==
    /\ appliance.t = "object"
    /\ Lacking(appliance) = {}
    /\ \A key \in TextFields : Get(appliance, key).t = "string"

\* The text is empty, longer than limit, or has a character outside class.
BadText(text, limit, class) ==
    \/ Length(text) = 0
    \/ Length(text) > limit
    \/ ~MatchesClass(text, class)

\* Every character a text of the inputs is made of.
AnyCharacter == AlphaNum \cup {"_", "-", "=", ";", ":", "?", "@", "&", " ", "!", "#"}

\* One of the text fields of the appliance breaks its rule.
BadTextField(appliance) ==
    \/ BadText(Get(appliance, "applianceId"), 256,
               AlphaNum \cup {"_", "-", "=", ";", ":", "?", "@", "&"})
    \/ \E key \in {"manufacturerName", "modelName", "version", "friendlyDescription"} :
          BadText(Get(appliance, key), 128, AnyCharacter)
    \/ BadText(Get(appliance, "friendlyName"), 128, AlphaNum \cup {" "})

\* The appliance differs from a valid one in its text fields at most.
ValidButForText(appliance) ==
    /\ TextualAppliance(appliance)
    /\ \A key \in NineKeys \ TextFields : Get(appliance, key) = Get(GoodAppliance, key)

\* C11: an appliance is rejected when its applianceId is empty, longer than
\* 256 characters or has a character outside [a-zA-Z0-9_-=;:?@&], when its
\* manufacturerName, modelName, version or friendlyDescription is empty or
\* longer than 128 characters, or when its friendlyName is empty, longer
\* than 128 characters or has anything but letters, digits and spaces: the
\* call fails, with a validation error carrying the appliance when the
\* appliances before it are valid.  An appliance whose text fields keep the
\* rules, values of exactly 256 and 128 characters included, is accepted:
\* the call passes when nothing else is at fault.
C11_ApplianceTextFields ==
    LET appliances == Get(Get(response, "payload"), "discoveredAppliances").a
    IN  AppliancesChecked =>
           \A i \in 1..Len(appliances) :
              TextualAppliance(appliances[i]) =>
                 /\ BadTextField(appliances[i]) =>
                       /\ pc = "thrown"
                       /\ (\A j \in 1..(i - 1) : appliances[j] = GoodAppliance) =>
                             /\ outcome.kind = "Error"
                             /\ outcome.text.title = Get(Get(response, "header"), "name")
                             /\ outcome.text.data = appliances[i]
                 /\ /\ ~BadTextField(appliances[i])
                    /\ ValidButForText(appliances[i])
                    /\ \A j \in 1..Len(appliances) : j # i => appliances[j] = GoodAppliance
                    => pc = "returned"

\* An applianceId of 256 characters was accepted.
C11_Witness ==
    LET appliances == Get(Get(response, "payload"), "discoveredAppliances").a
    IN  /\ AppliancesChecked
        /\ Len(appliances) = 2
        /\ appliances[1] = GoodAppliance
        /\ ValidButForText(appliances[2])
        /\ Length(Get(appliances[2], "applianceId")) = 256
        /\ pc = "returned"


\* The eight words of the valid-action vocabulary.
EightActions == {Lit(word) : word \in {
    "setTargetTemperature", "incrementTargetTemperature", "decrementTargetTemperature",
    "setPercentage", "incrementPercentage", "decrementPercentage", "turnOff", "turnOn"}}

\* actions is a non-empty sequence of words of the vocabulary.
GoodActions(actions) ==
    /\ actions.t = "array"
    /\ Len(actions.a) > 0
    /\ \A k \in 1..Len(actions.a) : actions.a[k] \in EightActions

\* C12: the actions of an appliance must be a non-empty sequence of words
\* of the eight-word vocabulary.  An appliance whose actions are no
\* sequence, an empty sequence or a sequence with an unknown element makes
\* the call fail; when the appliance is otherwise valid and follows valid
\* appliances the error is 'actions must be a list', 'actions cannot be
\* empty' or names the unknown action, and carries the appliance.  An
\* otherwise valid appliance with good actions, among valid appliances,
\* passes.
C12_ApplianceActions ==
    LET appliances == Get(Get(response, "payload"), "discoveredAppliances").a
    IN  AppliancesChecked =>
           \A i \in 1..Len(appliances) :
              LET actions == Get(appliances[i], "actions")
                  alone == appliances[i] = With(GoodAppliance, "actions", actions)
              IN  /\ appliances[i].t = "object" /\ ~GoodActions(actions) => pc = "thrown"
                  /\ /\ alone
                     /\ ~GoodActions(actions)
                     /\ \A j \in 1..(i - 1) : appliances[j] = GoodAppliance
                     => /\ outcome.kind = "Error"
                        /\ outcome.text.title = Get(Get(response, "header"), "name")
                        /\ outcome.text.data = appliances[i]
                        /\ (outcome.text.message = "actions must be a list")
                              <=> actions.t # "array"
                        /\ (outcome.text.message = "actions cannot be empty")
                              <=> actions = Arr(<<>>)
                  /\ /\ alone
                     /\ GoodActions(actions)
                     /\ \A j \in 1..Len(appliances) : j # i => appliances[j] = GoodAppliance
                     => pc = "returned"

\* A sequence whose third action is unknown was refused.
C12_Witness ==
    LET appliances == Get(Get(response, "payload"), "discoveredAppliances").a
    IN  /\ AppliancesChecked
        /\ Len(appliances) = 2
        /\ appliances[1] = GoodAppliance
        /\ Get(appliances[2], "actions") = Arr(<<Lit("turnOn"), Lit("turnOff"), Lit("TurnOn")>>)
        /\ Threw(DiscoverAppliancesResponse, "\"TurnOn\" is not an allowed action")


\* The number of bytes of JSON.stringify(value), for a string of ASCII
\* characters that need no escape and for a mapping of such strings.
RECURSIVE MembersLength(_, _)
MembersLength(o, keys) ==
    IF keys = {} THEN 0
    ELSE LET key == CHOOSE key \in keys : TRUE
         IN  (Len(key) + 2) + 1 + (SumLen(o[key].s) + 2)
             + (IF keys = {key} THEN 0 ELSE 1) + MembersLength(o, keys \ {key})
SerializedSize(value) ==
    IF value.t = "string" THEN SumLen(value.s) + 2
    ELSE 2 + MembersLength(value.o, DOMAIN value.o)

\* A mapping of strings.
MappingOfStrings(value) ==
    /\ value.t = "object"
    /\ \A key \in DOMAIN value.o : value.o[key].t = "string"

\* C13: in an otherwise valid appliance among valid appliances, a null
\* additionalApplianceDetails is accepted, a mapping whose serialized size
\* is at most 5000 bytes is accepted, and a mapping whose serialized size
\* exceeds 5000 bytes is rejected with the validation error
\* 'additionalApplianceDetails must not exceed 5000 bytes'.
C13_AdditionalApplianceDetails ==
    LET appliances == Get(Get(response, "payload"), "discoveredAppliances").a
    IN  AppliancesChecked =>
           \A i \in 1..Len(appliances) :
              LET details == Get(appliances[i], "additionalApplianceDetails")
              IN  /\ appliances[i] = With(GoodAppliance, "additionalApplianceDetails", details)
                  /\ \A j \in 1..Len(appliances) : j # i => appliances[j] = GoodAppliance
                  => /\ details = Null => pc = "returned"
                     /\ MappingOfStrings(details) /\ SerializedSize(details) <= 5000
                           => pc = "returned"
                     /\ MappingOfStrings(details) /\ SerializedSize(details) > 5000
                           => Threw(Get(Get(response, "header"), "name"),
                                    "additionalApplianceDetails must not exceed 5000 bytes")


\* A control request answered with a header that validation accepts.
ControlPayloadChecked ==
    /\ Ended
    /\ branch = "control"
    /\ pc = "thrown" => thrownAt = "payload"

\* The response names that require a payload that is not empty.
NonEmptyPayloadNames ==
    {Name(stem, "Confirmation") :
        stem \in {"SetTargetTemperature", "IncrementTargetTemperature",
                  "DecrementTargetTemperature"}}
    \cup {Name(stem, "Error") :
            stem \in {"ValueOutOfRange", "DependentServiceUnavailable", "TargetFirmwareOutdated",
                      "TargetBridgeFirmwareOutdated", "UnwillingToSetValue", "RateLimitExceeded",
                      "NotSupportedInCurrentMode", "UnexpectedInformationReceived"}}

\* The payload is absent or holds nothing / is a mapping, a sequence or a
\* string that holds something.
EmptyPayload(payload_) ==
    IsNullish(payload_) \/ payload_ \in {EmptyObj, Arr(<<>>), Str(<<>>)}
NonEmptyPayload(payload_) ==
    \/ payload_.t = "object" /\ DOMAIN payload_.o # {}
    \/ HasLength(payload_) /\ Length(payload_) > 0

\* C14: for a control response with a valid header, an empty payload is
\* rejected when header.name is in the requires-non-empty-payload set
\* ('payload cannot be empty', or 'payload is missing' for null and
\* undefined), and a non-empty payload is rejected for every other control
\* response name ('payload must be empty').
C14_PayloadEmptiness ==
    LET payload_ == Get(response, "payload")
        name == Get(Get(response, "header"), "name")
    IN  ControlPayloadChecked =>
           /\ name \in NonEmptyPayloadNames /\ EmptyPayload(payload_) =>
                 /\ Threw(name, IF IsNullish(payload_) THEN "payload is missing"
                                ELSE "payload cannot be empty")
                 /\ outcome.text.data = payload_
           /\ name \notin NonEmptyPayloadNames /\ NonEmptyPayload(payload_) =>
                 /\ Threw(name, "payload must be empty")
                 /\ outcome.text.data = payload_

\* An UnexpectedInformationReceivedError with the payload {} was refused
\* for its empty payload.
C14_Witness ==
    /\ ControlPayloadChecked
    /\ Get(Get(response, "header"), "name") = Name("UnexpectedInformationReceived", "Error")
    /\ Get(response, "payload") = EmptyObj
    /\ Threw(Name("UnexpectedInformationReceived", "Error"), "payload cannot be empty")


\* The request is one of the three temperature requests.
TemperatureRequest(req) ==
    /\ ControlRequest(req)
    /\ Get(Get(req, "header"), "name") \in
          {Name(stem, "Request") :
              stem \in {"SetTargetTemperature", "IncrementTargetTemperature",
                        "DecrementTargetTemperature"}}

\* A numeric targetTemperature.value and a temperatureMode.value among
\* HEAT, COOL and AUTO.
GoodTemperatureState(state) ==
    /\ In("targetTemperature", state)
    /\ In("value", Get(state, "targetTemperature"))
    /\ Get(Get(state, "targetTemperature"), "value").t = "number"
    /\ In("temperatureMode", state)
    /\ In("value", Get(state, "temperatureMode"))
    /\ Get(Get(state, "temperatureMode"), "value") \in {Lit("HEAT"), Lit("COOL"), Lit("AUTO")}

\* C15: for the three temperature confirmations with a valid header, a
\* payload whose temperatureMode.value is outside {HEAT, COOL, AUTO} fails
\* validation, and a payload with a numeric targetTemperature.value, a
\* temperatureMode.value inside {HEAT, COOL, AUTO} and a previousState with
\* the same two fields under the same constraints passes.
C15_TemperatureConfirmation ==
    LET payload_ == Get(response, "payload")
        temperatureMode == Get(payload_, "temperatureMode")
    IN  /\ ControlPayloadChecked
        /\ TemperatureRequest(request)
        /\ Get(Get(response, "header"), "name")
              = ConfirmationOf(Get(Get(request, "header"), "name"))
        => /\ /\ In("value", temperatureMode)
              /\ Get(temperatureMode, "value") \notin {Lit("HEAT"), Lit("COOL"), Lit("AUTO")}
              => pc = "thrown"
           /\ /\ GoodTemperatureState(payload_)
              /\ In("previousState", payload_)
              /\ GoodTemperatureState(Get(payload_, "previousState"))
              => pc = "returned"


\* The response is a ValueOutOfRangeError in the control namespace.
ValueOutOfRangeError(resp) ==
    /\ Get(Get(resp, "header"), "namespace") = Control
    /\ Get(Get(resp, "header"), "name") = Name("ValueOutOfRange", "Error")

\* C16: an error response to a temperature request is checked by its own
\* error shape only: a ValueOutOfRangeError with a valid header passes when
\* its payload has a numeric minimumValue and a numeric maximumValue, and
\* fails when one of the two is missing or no number.
C16_ErrorToTemperatureRequest ==
    LET payload_ == Get(response, "payload")
        Numeric(key) == In(key, payload_) /\ Get(payload_, key).t = "number"
    IN  /\ ControlPayloadChecked
        /\ TemperatureRequest(request)
        /\ ValueOutOfRangeError(response)
        /\ payload_.t = "object"
        => IF Numeric("minimumValue") /\ Numeric("maximumValue")
           THEN pc = "returned"
           ELSE pc = "thrown"


\* The response is a control response with the given name.
ControlResponseNamed(stem) ==
    /\ Get(Get(response, "header"), "namespace") = Control
    /\ Get(Get(response, "header"), "name") = Name(stem, "Error")

\* The value is a non-empty string of letters and digits.
NonEmptyAlphanumeric(value) ==
    /\ value.t = "string"
    /\ Length(value) > 0
    /\ MatchesClass(value, AlphaNum)

\* C17: a control response named TargetFirmwareOutdatedError or
\* TargetBridgeFirmwareOutdatedError is rejected unless its payload holds
\* minimumFirmwareVersion and currentFirmwareVersion, each non-empty and
\* alphanumeric.
C17_FirmwareVersions ==
    LET payload_ == Get(response, "payload")
        Versioned(key) == In(key, payload_) /\ NonEmptyAlphanumeric(Get(payload_, key))
    IN  /\ ControlPayloadChecked
        /\ ControlRequest(request)
        /\ \/ ControlResponseNamed("TargetFirmwareOutdated")
           \/ ControlResponseNamed("TargetBridgeFirmwareOutdated")
        /\ payload_.t = "object"
        /\ ~(Versioned("minimumFirmwareVersion") /\ Versioned("currentFirmwareVersion"))
        => pc = "thrown"

\* C18: a RateLimitExceededError to a control request that is no temperature
\* request passes when payload.rateLimit is a positive number and
\* payload.timeUnit is one of MINUTE, HOUR, DAY, and fails when one of the
\* two is missing, rateLimit is not positive or timeUnit is another word.
C18_RateLimit ==
    LET payload_ == Get(response, "payload")
        rateLimit == Get(payload_, "rateLimit")
        timeUnit == Get(payload_, "timeUnit")
        Limited == /\ In("rateLimit", payload_)
                   /\ rateLimit.t = "number"
                   /\ rateLimit.n > 0
        Timed == /\ In("timeUnit", payload_)
                 /\ timeUnit \in {Lit("MINUTE"), Lit("HOUR"), Lit("DAY")}
    IN  /\ ControlPayloadChecked
        /\ ControlRequest(request)
        /\ ~TemperatureRequest(request)
        /\ ControlResponseNamed("RateLimitExceeded")
        /\ payload_.t = "object"
        => /\ Limited /\ Timed => pc = "returned"
           /\ \/ ~In("rateLimit", payload_)
              \/ ~In("timeUnit", payload_)
              \/ rateLimit.t = "number" /\ rateLimit.n <= 0
              \/ In("timeUnit", payload_) /\ ~Timed
              => pc = "thrown"


\* The response was rejected; with this message when its payload is not
\* empty and the request is no temperature request.
RejectedWith(message) ==
    /\ pc = "thrown"
    /\ ~TemperatureRequest(request) /\ ~isEmpty(Get(response, "payload"))
       => Threw(Get(Get(response, "header"), "name"), message)

\* C19: a control response named UnwillingToSetValueError is rejected when
\* payload.errorInfo is missing, when errorInfo.code or
\* errorInfo.description is missing, and when errorInfo.code is not
\* ThermostatIsOff; one named NotSupportedInCurrentModeError is rejected when
\* currentDeviceMode is missing or is none of HEAT, COOL, AUTO, AWAY, OTHER.
C19_ErrorInfoAndCurrentMode ==
    LET payload_ == Get(response, "payload")
        errorInfo == Get(payload_, "errorInfo")
        currentDeviceMode == Get(payload_, "currentDeviceMode")
    IN  /\ ControlPayloadChecked
        /\ ControlRequest(request)
        /\ payload_.t = "object"
        => /\ ControlResponseNamed("UnwillingToSetValue")
              => /\ ~In("errorInfo", payload_)
                    => RejectedWith("payload.errorInfo is missing")
                 /\ In("errorInfo", payload_) /\ errorInfo.t # "object"
                    => pc = "thrown"
                 /\ In("errorInfo", payload_) /\ errorInfo.t = "object"
                    => /\ ~In("code", errorInfo)
                          => RejectedWith("payload.errorInfo.code is missing")
                       /\ In("code", errorInfo) /\ ~In("description", errorInfo)
                          => RejectedWith("payload.errorInfo.description is missing")
                       /\ /\ In("code", errorInfo)
                          /\ In("description", errorInfo)
                          /\ Get(errorInfo, "code") # Lit("ThermostatIsOff")
                          => RejectedWith("payload.errorInfo.code is invalid")
           /\ ControlResponseNamed("NotSupportedInCurrentMode")
              => /\ ~In("currentDeviceMode", payload_)
                    => RejectedWith("payload.currentDeviceMode is missing")
                 /\ /\ In("currentDeviceMode", payload_)
                    /\ currentDeviceMode \notin {Lit("HEAT"), Lit("COOL"), Lit("AUTO"),
                                                 Lit("AWAY"), Lit("OTHER")}
                    => RejectedWith("payload.currentDeviceMode is invalid")

\* An UnwillingToSetValueError with an unknown code, answering a request
\* that is no temperature request, was rejected for its code.
C19_Witness ==
    /\ ControlPayloadChecked
    /\ ~TemperatureRequest(request)
    /\ ControlResponseNamed("UnwillingToSetValue")
    /\ Get(Get(Get(response, "payload"), "errorInfo"), "code") = Lit("ThermostatIsOn")
    /\ Threw(Name("UnwillingToSetValue", "Error"), "payload.errorInfo.code is invalid")


\* The request is a system (health-check) request and the response header
\* passed its checks.
SystemPayloadChecked ==
    /\ Ended
    /\ branch = "system"
    /\ pc = "thrown" => thrownAt = "payload"

\* C20: for a system request with a valid response header, validation
\* passes exactly when the payload is present, payload.description is a
\* non-empty string and payload.isHealthy is a boolean; a payload whose
\* isHealthy is no boolean is rejected with 'payload.isHealthy must be a
\* boolean'.
C20_SystemPayload ==
    LET payload_ == Get(response, "payload")
        description == Get(payload_, "description")
        isHealthy == Get(payload_, "isHealthy")
        Healthy == /\ payload_.t = "object"
                   /\ In("description", payload_)
                   /\ description.t = "string"
                   /\ Length(description) > 0
                   /\ In("isHealthy", payload_)
                   /\ isHealthy.t = "boolean"
    IN  SystemPayloadChecked
        => /\ pc = "returned" <=> Healthy
           /\ /\ payload_.t = "object"
              /\ In("description", payload_)
              /\ description.t = "string"
              /\ Length(description) > 0
              /\ In("isHealthy", payload_)
              /\ isHealthy.t # "boolean"
              => Threw(Get(Get(response, "header"), "name"),
                       "payload.isHealthy must be a boolean")


\* The request is named HealthCheckRequest.
HealthCheck(req) == Get(Get(req, "header"), "name") = HealthCheckRequest

\* The payload is a mapping whose description is absent or the empty string.
NoDescription(payload_) ==
    /\ payload_.t = "object"
    /\ \/ ~In("description", payload_)
       \/ Get(payload_, "description") = Str(<<>>)

\* C21: for a HealthCheckRequest with a valid response header, a payload
\* whose description is the empty string or is absent fails with
\* 'payload.description must not be empty', whatever isHealthy is.
C21_EmptyDescription ==
    /\ SystemPayloadChecked
    /\ HealthCheck(request)
    /\ NoDescription(Get(response, "payload"))
    => Threw(Get(Get(response, "header"), "name"), "payload.description must not be empty")

\* A payload with an empty description and a boolean isHealthy was rejected.
C21_Witness ==
    /\ SystemPayloadChecked
    /\ HealthCheck(request)
    /\ Get(response, "payload") = Obj([description |-> Str(<<>>), isHealthy |-> Bool(TRUE)])
    /\ Threw(Get(Get(response, "header"), "name"), "payload.description must not be empty")


\* The call that ended was made before in this process, with the same
\* request and the same response.
MadeBefore ==
    /\ Ended
    /\ earlier.made
    /\ earlier.request = request
    /\ earlier.response = response

C23_NoGlobalAssigned ==
    [][requestNamespace' = requestNamespace /\ payload' = payload]_vars


\* C24: validateResponse never modifies its inputs: from the start of a
\* call to its end, whether it returns or throws, the request and the
\* response are what the caller passed.
C24_InputsUnchanged ==
    [][~Ended => request' = request /\ response' = response]_vars

\* A call went through the header rules and the payload rules of the control
\* branch and returned.
C24_Witness ==
    /\ pc = "returned"
    /\ branch = "control"
    /\ Get(response, "payload") = EmptyObj


\* C25: validateContext throws 'Lambda :: timeout must be 7 seconds or less'
\* exactly when context.getRemainingTimeInMillis() is more than 7000; with
\* 7000 ms or less it returns, and it does nothing else: it assigns no
\* global and calls nothing of the context but getRemainingTimeInMillis.
C25_ContextTimeout ==
    /\ pc \in {"returned", "thrown"} =>
          /\ pc = "thrown" <=> getRemainingTimeInMillis(context).n > 7000
          /\ pc = "thrown" =>
                /\ Threw(Lit("Lambda"), "timeout must be 7 seconds or less")
                /\ outcome.text.data = context
    /\ requestNamespace = Undefined
    /\ payload = Undefined
    /\ succeeded = <<>>

\* A context with exactly 7000 ms left was accepted.
C25_Witness ==
    /\ pc = "returned"
    /\ context = Context(7000)


\* The handler's invocation ended.
Invoked == pc \in {"returned", "thrown"} /\ context # Undefined /\ thrownAt # "context"

\* C26: in the sample handler, every response handed to context.succeed
\* has been passed to validator.validateResponse earlier in the same
\* invocation, error responses included.
C26_ValidatedBeforeSucceed ==
    \A i \in 1..Len(succeeded) :
        \E j \in 1..Len(validated) : validated[j].response = succeeded[i]

\* The request is a discovery request that carries the access token of a
\* user of the canned data.
DiscoveryWithToken(req) ==
    /\ Get(Get(req, "header"), "namespace") = Discovery
    /\ Get(Get(req, "payload"), "accessToken").t = "string"
    /\ UsersOf(Trim(Get(Get(req, "payload"), "accessToken"))) # <<>>

\* C27: for a discovery request with a valid access token, handleDiscovery
\* builds a response with the request's namespace and messageId and the name
\* DiscoverAppliancesResponse, validateResponse accepts it, and
\* context.succeed is then called once, with that response.
C27_DiscoverySucceeds ==
    /\ Invoked
    /\ DiscoveryWithToken(request)
    => /\ Get(Get(response, "header"), "name") = DiscoverAppliancesResponse
       /\ Get(Get(response, "header"), "namespace") = Discovery
       /\ Get(Get(response, "header"), "messageId") = Get(Get(request, "header"), "messageId")
       /\ Len(validated) = 1
       /\ validated[1].response = response
       /\ validated[1].outcome = Ok
       /\ succeeded = <<response>>


\* The request has the discovery namespace and the name TurnOnRequest.
DiscoveryTurnOn(req) ==
    /\ Get(Get(req, "header"), "namespace") = Discovery
    /\ Get(Get(req, "header"), "name") = TurnOnRequest

NoAppliances == Obj([discoveredAppliances |-> Arr(<<>>)])

\* C28: the request's namespace is not checked against its name: the
\* payload rules are chosen by request.header.namespace, the namespace and
\* name required of the response by request.header.name.  A request with
\* the discovery namespace and the name TurnOnRequest goes to the discovery
\* rules; it is accepted with a well-formed control header named
\* TurnOnConfirmation and the payload {discoveredAppliances: []}, and
\* refused with that header and the empty payload of a confirmation, and
\* with the header of a discovery response.
C28_NamespaceAndNameUnrelated ==
    LET header == Get(response, "header")
    IN  /\ Ended
        /\ DiscoveryTurnOn(request)
        /\ WellFormedHeader(header)
        /\ thrownAt # "response"
        => /\ branch = "discovery"
           /\ /\ Get(header, "namespace") = Control
              /\ Get(header, "name") = TurnOnConfirmation
              => IF Get(response, "payload") = NoAppliances
                 THEN pc = "returned"
                 ELSE Get(response, "payload") = EmptyObj
                      => Threw(TurnOnConfirmation, "payload is missing")
           /\ Get(header, "namespace") = Discovery
              => Threw(Lit("Control Response"),
                       "header.namespace must be Alexa.ConnectedHome.Control")

\* The discovery request named TurnOnRequest was accepted with a control
\* header and a discovery payload.
C28_Witness ==
    /\ pc = "returned"
    /\ DiscoveryTurnOn(request)
    /\ Get(Get(response, "header"), "namespace") = Control
    /\ Get(Get(response, "header"), "name") = TurnOnConfirmation
    /\ Get(response, "payload") = NoAppliances

\* The header has the four keys, payloadVersion "2" and a messageId of 1 to
\* 127 letters, digits and hyphens.
FourKeysWellFormed(header) ==
    /\ header.t = "object"
    /\ \A key \in {"namespace", "name", "payloadVersion", "messageId"} : In(key, header)
    /\ Get(header, "payloadVersion") = Lit("2")
    /\ Get(header, "messageId").t = "string"
    /\ MatchesClass(Get(header, "messageId"), AlphaNum \cup {"-"})
    /\ Length(Get(header, "messageId")) \in 1..127

\* C29: for the request name HealthCheckRequest, validateResponseHeader
\* puts no constraint on header.namespace and header.name: a header with
\* the four keys, payloadVersion "2" and a well-formed messageId passes it
\* whatever the namespace and the name are.
C29_HealthCheckHeaderUnconstrained ==
    /\ HeaderChecked
    /\ HealthCheck(request)
    /\ FourKeysWellFormed(Get(response, "header"))
    => ~HeaderRejected

\* The header of a response to a HealthCheckRequest passed with the control
\* namespace and a name that is no response name.
C29_Witness ==
    /\ HeaderChecked
    /\ ~HeaderRejected
    /\ HealthCheck(request)
    /\ Get(Get(response, "header"), "namespace") = Control
    /\ Get(Get(response, "header"), "name") = Lit("0")

=============================================================================
